---- MODULE Spec2Model ----
(***************************************************************************)
(* QuickRewind orchestration engine: the Planning-then-Execution executor  *)
(* (app/services/agent_service.py), the MCP tool registry                  *)
(* (app/core/mcp.py, app/core/tool_registry.py) and the server-push        *)
(* stream of /chat/stream (app/api/v1/agent_routes.py).                    *)
(*                                                                         *)
(* A run is a coroutine.  Each action below is the code between two        *)
(* suspension points (await of the generation model, of the tool, of the   *)
(* sink), so runs on one executor instance interleave exactly where the    *)
(* event loop can switch tasks.                                            *)
(*                                                                         *)
(* Text values are modelled by what the code can tell about them: a tool   *)
(* result is "text" (a str), "map" (a dict), "none" (None of a failed      *)
(* ToolResponse) or one of the fixed notes the executor builds itself.     *)
(***************************************************************************)
EXTENDS Integers, Sequences, FiniteSets, TLC

\* ---------------------------------------------------------------- bounds
MaxPlan == 3          \* longest plan a planning response yields (single run)
MaxPlanShared == 1    \* longest plan when two runs share one executor
MaxPlanStream == 2    \* longest plan of a run behind /chat/stream
MaxStepsCap == 3      \* largest config.max_steps tried

Runs == {1, 2}
NoUser == "no_user"

VARIABLES
    active,              \* runs started in this behaviour
    sink,                \* sink[r]: "none" | "callback" | "queue"  (inputs["stream_callback"])
    max_steps,           \* self.config.max_steps
    user_input,          \* user_input[r]: the request text of run r
    execution_state,     \* self.execution_state of the executor instance
    self_current_step,   \* self.current_step of the executor instance
    pc,                  \* pc[r]: position of run r
    plan_steps,          \* plan_steps[r]: local of ainvoke / _execution_phase
    step_num,            \* step_num[r]: loop variable of _execution_phase
    call,                \* call[r]: the registry call run r is awaiting
    events,              \* events[r]: events the sink of run r accepted, in order
    output,              \* output[r]: what ainvoke returned
    fault,               \* fault[r]: source of the first exception of run r
    calls,               \* every call_tool_async invocation, in order
    llm_calls,           \* llm_calls[r]: generation-model calls made by run r
    outcomes,            \* outcomes[r][k]: how step k of run r ended (registry outcome,
                         \* "direct", "skipped" or "no_call")
    execution_history,   \* execution_history[r]: local of ainvoke, the step log
    summary_response,    \* summary_response[r]: the response to the summary prompt
    event_queue,         \* asyncio.Queue of the stream
    enqueued,            \* every item ever put on event_queue, in order
    delivered,           \* event frames the consumer yielded, in order
    task,                \* position of process_agent (producer task)
    consumer,            \* position of event_generator (consumer)
    exitBy,              \* why the consumer loop ended
    heartbeats,          \* heartbeat frames the consumer yielded
    pr_pc,               \* position of Agent.process_request
    pr_request,          \* the request given to Agent.process_request
    pr_executor,         \* which executor self.agent_executor is
    pr_result,           \* what Agent.process_request returned
    tools,               \* mcp_server._tools: the entries in insertion order
    tool_response,       \* what the last call_tool / call_tool_async came to
    last_call,           \* the arguments of that call and how often the callable was called
    last_register,       \* the arguments of the last register_tool and its error
    applied,             \* the routine called on its own ("none" before the call)
    argument,            \* the argument of that call
    returned             \* what the call returned

regVars == <<tools, tool_response, last_call, last_register>>
logVars == <<execution_history, summary_response>>
funVars == <<applied, argument, returned>>
\* what no run changes: the configuration and the registry
cfgVars == <<active, sink, max_steps, user_input, regVars, funVars>>
instVars == <<execution_state, self_current_step>>
runVars == <<pc, plan_steps, logVars, step_num, call, events, output, fault, calls, llm_calls,
            outcomes>>
streamVars == <<event_queue, enqueued, delivered, task, consumer, exitBy, heartbeats>>
agentVars == <<pr_pc, pr_request, pr_executor, pr_result>>
vars == <<cfgVars, instVars, runVars, streamVars, agentVars>>

\* no routine has been called on its own
NoRoutine == applied = "none" /\ argument = <<>> /\ returned = <<>>

\* ------------------------------------------------------ tool registry
\* tool_map of the executor = the tools registered in mcp_server
ToolNames == {"search_video_by_vector", "generate_summary"}
UnknownTool == "no_such_tool"

\* ToolParameter(required=True) of each registered tool
RequiredParams(name) ==
    IF name = "search_video_by_vector" THEN {"query"} ELSE {"content"}

\* keyword parameters the callable's signature accepts
Signature(name) ==
    IF name = "search_video_by_vector" THEN {"query", "top_k"}
    ELSE {"content", "max_length"}

\* what the callable returns: search returns a dict, summary a str
ReturnKind(name) ==
    IF name = "search_video_by_vector" THEN "map" ELSE "text"

\* MCPServer._validate_parameters: TRUE iff it raises
ValidateRaises(name, params) ==
    \E p \in RequiredParams(name) : p \notin params

\* a callable that is a coroutine function without a single await in its
\* body (search_video_by_vector_tool: embedding, Milvus search and database
\* query are plain blocking calls): it runs on the event-loop thread in one
\* piece, so no timer and no other task runs until it returns
RunsOnLoop(name) == name = "search_video_by_vector"

\* what awaiting call_tool_async under wait_for can come to:
\*   "failed"  ToolResponse(success=False), result None
\*   "success" ToolResponse(success=True, result=value)
\*   "timeout" wait_for raised TimeoutError
\*   "blocks"  the callable never returns and holds the event-loop thread
RegistryOutcomes(name, params) ==
    IF ValidateRaises(name, params) THEN {"failed"}
    ELSE IF ~(params \subseteq Signature(name)) THEN {"failed"}
    ELSE IF RunsOnLoop(name) THEN {"success", "failed", "timeout", "blocks"}
    ELSE {"success", "failed", "timeout"}


\* ToolResultOf with the  except asyncio.TimeoutError  branch handing back
\* nothing instead of the timeout note
ToolResultOf_TimeoutLost(outcome, name) ==
    CASE outcome = "success" -> ReturnKind(name)
      [] outcome = "failed"  -> "none"
      [] outcome = "timeout" -> "none"

\* _execute_tool: the value the executor hands back for a registry outcome
\* (result.result of the ToolResponse, or the timeout note)
ToolResultOf(outcome, name) ==
    CASE outcome = "success" -> ReturnKind(name)
      [] outcome = "failed"  -> "none"
      [] outcome = "timeout" -> "timeout"

\* a value that supports  tool_result[:100]  and  "x" in tool_result
IsStr(res) == res \notin {"map", "none"}

\* ------------------------------------------------ MCPServer (mcp.py)
\* Python's None, where a str or a value could stand
PyNone == "<None>"

RegNames == {"t1", "t2"}

\* callables by what calling them does: a plain function or a coroutine
\* function; returning a value, raising an Exception with a message,
\* raising one without arguments (str(e) is ''), or raising a
\* BaseException that is no Exception (SystemExit)
Callables ==
    { [id |-> "f_sync", coroutine |-> FALSE, behaviour |-> "returns"],
      [id |-> "f_async", coroutine |-> TRUE, behaviour |-> "returns"],
      [id |-> "f_raises", coroutine |-> TRUE, behaviour |-> "raises"],
      [id |-> "f_raises_bare", coroutine |-> FALSE, behaviour |-> "raises_bare"],
      [id |-> "f_exits", coroutine |-> TRUE, behaviour |-> "exits"] }

\* keyword arguments the callables accept (all with defaults)
Accepts(f) == {"p1", "p2"}

ToolParameter(n, t, req) == [name |-> n, type |-> t, required |-> req]

\* parameter lists given to register_tool
ParameterLists ==
    { <<>>,
      <<ToolParameter("p1", "string", TRUE)>>,
      <<ToolParameter("p1", "string", TRUE), ToolParameter("p2", "number", FALSE)>>,
      <<ToolParameter("p1", "file", FALSE), ToolParameter("p2", "object", TRUE)>>,
      <<ToolParameter("p1", "array", TRUE), ToolParameter("p2", "boolean", TRUE)>>,
      <<ToolParameter("p1", "integer", TRUE)>>,
      <<ToolParameter("p1", "string", TRUE), ToolParameter("p2", "str", FALSE)>> }

\* parameter maps given to call_tool: the keys present
ParameterMaps == SUBSET {"p1", "p2", "extra"}

\* line 92
ValidTypes == {"string", "number", "boolean", "array", "object", "file"}

ToolDefinition(n, parameters) == [name |-> n, parameters |-> parameters]

Registered(d, n) == \E i \in 1..Len(d) : d[i].name = n

\* d[name] = entry on a dict that keeps one entry per key
DictSet_Append(d, n, entry) == Append(d, entry)

\* self._tools[name] = {...}: a new key goes last, an existing key keeps
\* its place and gets the new value
DictSet(d, n, entry) ==
    IF Registered(d, n)
    THEN [i \in 1..Len(d) |-> IF d[i].name = n THEN entry ELSE d[i]]
    ELSE Append(d, entry)

\* self._tools.get(name), for a registered name
get_tool(d, n) == d[CHOOSE i \in 1..Len(d) : d[i].name = n]

\* get_available_tools
get_available_tools(d) == [i \in 1..Len(d) |-> d[i].definition]

\* register_tool that stores the entry before it looks at the types
register_tool_StoreFirst(d, n, func, parameters) ==
    LET bad == {i \in 1..Len(parameters) : parameters[i].type \notin ValidTypes}
        entry == [name |-> n, function |-> func,
                  definition |-> ToolDefinition(n, parameters)]
    IN IF bad # {}
       THEN [tools |-> DictSet(d, n, entry),
             error |-> "Invalid parameter type "
                       \o parameters[CHOOSE i \in bad : \A j \in bad : i <= j].type]
       ELSE [tools |-> DictSet(d, n, entry), error |-> PyNone]

\* register_tool: the catalog afterwards and the ValueError raised, if any
register_tool(d, n, func, parameters) ==
    LET bad == {i \in 1..Len(parameters) : parameters[i].type \notin ValidTypes}
        entry == [name |-> n, function |-> func,
                  definition |-> ToolDefinition(n, parameters)]
    IN IF bad # {}
       THEN [tools |-> d,
             error |-> "Invalid parameter type "
                       \o parameters[CHOOSE i \in bad : \A j \in bad : i <= j].type]
       ELSE [tools |-> DictSet(d, n, entry), error |-> PyNone]

\* _validate_parameters that wants every declared parameter, required or not
validate_parameters_All(tool_def, parameters) ==
    LET ps == tool_def.parameters
        missing == {i \in 1..Len(ps) : ps[i].name \notin parameters}
    IN IF missing = {} THEN PyNone
       ELSE "Required parameter "
            \o ps[CHOOSE i \in missing : \A j \in missing : i <= j].name \o " missing"

\* _validate_parameters: the message of the ValueError it raises, or None
validate_parameters(tool_def, parameters) ==
    LET ps == tool_def.parameters
        missing == {i \in 1..Len(ps) : ps[i].required /\ ps[i].name \notin parameters}
    IN IF missing = {} THEN PyNone
       ELSE "Required parameter "
            \o ps[CHOOSE i \in missing : \A j \in missing : i <= j].name \o " missing"

ToolResponse(success, result, error) ==
    [success |-> success, result |-> result, error |-> error]

\* what a call comes to: the response returned, or raised = TRUE when an
\* exception reached the caller; called = how often the callable was called
Returned(resp, n) == [response |-> resp, raised |-> FALSE, called |-> n]

\* str(e) of what the callable raises
ExceptionText(f) == IF f.behaviour = "raises" THEN "boom" ELSE ""

\* lines 153 / 189-194: calling the callable with **parameters
CallFunction(path, f, parameters) ==
    IF ~(parameters \subseteq Accepts(f))
    THEN Returned(ToolResponse(FALSE, PyNone, "got an unexpected keyword argument"), 1)
    ELSE IF path = "sync" /\ f.coroutine
    THEN Returned(ToolResponse(TRUE, "coroutine object", PyNone), 1)
    ELSE CASE f.behaviour = "returns" ->
                Returned(ToolResponse(TRUE, "value", PyNone), 1)
           [] f.behaviour \in {"raises", "raises_bare"} ->
                Returned(ToolResponse(FALSE, PyNone, ExceptionText(f)), 1)
           [] f.behaviour = "exits" ->
                [response |-> ToolResponse(FALSE, PyNone, PyNone), raised |-> TRUE,
                 called |-> 1]

\* call_tool (path "sync") and call_tool_async (path "async")
call_tool(path, d, n, parameters) ==
    IF ~Registered(d, n)
    THEN Returned(ToolResponse(FALSE, PyNone, "Tool " \o n \o " not found"), 0)
    ELSE LET tool == get_tool(d, n)
             invalid == validate_parameters(tool.definition, parameters)
         IN IF invalid # PyNone
            THEN Returned(ToolResponse(FALSE, PyNone, invalid), 0)
            ELSE CallFunction(path, tool.function, parameters)

NoCall == [path |-> "none", name |-> "", parameters |-> {}, raised |-> FALSE,
           called |-> 0]
NoFunction == [id |-> "none", coroutine |-> FALSE, behaviour |-> "none"]
NoRegister == [name |-> "", function |-> NoFunction, parameters |-> <<>>, error |-> PyNone]
NoToolResponse == ToolResponse(FALSE, PyNone, PyNone)

\* the tools of tool_registry.py the runs use, as registered at import
StartupCatalog ==
    << [name |-> "generate_summary",
        function |-> [id |-> "generate_summary_tool", coroutine |-> TRUE,
                      behaviour |-> "returns"],
        definition |-> ToolDefinition("generate_summary",
                          <<ToolParameter("content", "string", TRUE),
                            ToolParameter("max_length", "number", FALSE)>>)],
       [name |-> "search_video_by_vector",
        function |-> [id |-> "search_video_by_vector_tool", coroutine |-> TRUE,
                      behaviour |-> "returns"],
        definition |-> ToolDefinition("search_video_by_vector",
                          <<ToolParameter("query", "string", TRUE),
                            ToolParameter("top_k", "number", FALSE)>>)] >>

RegistryAtStartup ==
    /\ tools = StartupCatalog
    /\ tool_response = NoToolResponse
    /\ last_call = NoCall
    /\ last_register = NoRegister

\* --------------------------------------------------- requests and plans
\* the request text: whose request it is and the identity its marker carries
RequestTexts(r) ==
    { [owner |-> r, marker |-> m] : m \in {NoUser, IF r = 1 THEN "u1" ELSE "u2"} }

\* re.search(r'当前用户ID:\s*([a-zA-Z0-9_-]+)', user_input)
ExtractUserId(text) == text.marker

\* the plan parsed from the planning response to request r: n step descriptions
PlanOf(r, n) == [i \in 1..n |-> <<r, i>>]

PlanCap ==
    IF Cardinality(active) > 1 THEN MaxPlanShared
    ELSE IF task # "none" THEN MaxPlanStream
    ELSE MaxPlan

NoResults == [i \in 1..MaxPlan |-> "unset"]

FreshState(uid) ==
    [plan |-> <<>>, results |-> NoResults, user_id |-> uid,
     current_tool |-> "none", status |-> "unset"]

\* -------------------------------------------- generation-model responses
\* The run of the single-run specification gets every response listed
\* below; where a second run, a stream or a caller multiplies the states,
\* one response per class is kept.
Detailed == Cardinality(active) = 1 /\ task = "none" /\ pr_executor = "none"

\* a response to the summary prompt, line by line: the marker the line
\* starts with ("" when it starts with none) and the text after it
Line(marker, text) == [marker |-> marker, text |-> text]

\* markers whose lines the line-anchored removals of lines 730-739 (and
\* 1226-1235 in the fallback) delete whole
ProcessMarkers == {"Step:", "Action:", "Result:"}

SummaryResponses ==
    IF Detailed
    THEN { <<Line("Final Answer:", "4")>>,
           <<Line("", "4")>>,
           <<Line("Step:", "1"), Line("Final Answer:", "4")>>,
           <<Line("Final Answer:", "4"), Line("Result:", "x")>>,
           <<Line("Final Answer:", "2+2 is"), Line("", "4")>>,
           <<Line("Final Answer:", ""), Line("Step:", "1")>>,
           <<>> }
    ELSE { <<Line("Final Answer:", "final_answer")>> }

\* no summary response received yet
NoSummary == <<Line("none", "")>>

\* "\n".join(lines) without the empty ones, which is what strip() and the
\* removals leave of whole lines
RECURSIVE JoinLines(_)
JoinLines(texts) ==
    IF texts = <<>> THEN ""
    ELSE IF Len(texts) = 1 THEN texts[1]
    ELSE texts[1] \o "\n" \o JoinLines(Tail(texts))

\* the text of each line that survives the removals
SurvivingTexts(lines) ==
    LET kept == SelectSeq(lines, LAMBDA l : l.marker \notin ProcessMarkers /\ l.text # "")
    IN [i \in 1..Len(kept) |-> kept[i].text]

\* "processing complete", line 755
DefaultAnswer == "processing complete"

\* _extract_final_answer, lines 693-757: what follows the first
\* "Final Answer:" (the whole response when there is none), without the
\* process lines and the markers, stripped; the default when nothing is left
extract_final_answer(response) ==
    LET marked == {i \in 1..Len(response) : response[i].marker = "Final Answer:"}
        first == CHOOSE i \in marked : \A j \in marked : i <= j
        span == IF marked = {} THEN response ELSE SubSeq(response, first, Len(response))
        final_answer == JoinLines(SurvivingTexts(span))
    IN IF final_answer = "" THEN DefaultAnswer ELSE final_answer

\* _clean_final_answer of the fallback, lines 1211-1249: the response
\* without the process lines and the markers, stripped
clean_final_answer(response) == JoinLines(SurvivingTexts(response))

\* action[7:-1].strip() on the texts tried
Strip(text) == IF text = " 4 " THEN "4" ELSE text

\* ------------------------------------------------------- step actions
ParamChoices == {{}, {"query"}, {"content"}, {"query", "user_id"}}

\* the texts tried inside  Direct[...]
DirectTexts == IF Detailed THEN {"4", " 4 "} ELSE {"direct"}

\* what _parse_execution_step can make of a step response, by the form of
\* the action text:
\*   "none"       no  Action:  marker, or nothing after it
\*   "direct"     Direct[text]
\*   "finish"     Finish[text]
\*   "malformed"  text with neither wrapper nor parentheses
\*   "bare"       the name of a registered tool and nothing else
\*   "call"       name(params)
ActionChoices ==
    { [kind |-> k, name |-> "", params |-> {}, text |-> ""] : k \in {"none", "malformed"} }
    \cup { [kind |-> "direct", name |-> "", params |-> {}, text |-> t] : t \in DirectTexts }
    \cup (IF Detailed
          THEN { [kind |-> "finish", name |-> "", params |-> {}, text |-> "4"] }
          ELSE {})
    \cup { [kind |-> "bare", name |-> n, params |-> {}, text |-> ""] : n \in ToolNames }
    \cup { [kind |-> "call", name |-> n, params |-> p, text |-> ""] :
               n \in ToolNames, p \in ParamChoices }
    \cup { [kind |-> "call", name |-> UnknownTool, params |-> {}, text |-> ""] }

\* the parameter text between the parentheses
ParamText(params) ==
    CASE params = {} -> ""
      [] params = {"query"} -> "query=q"
      [] params = {"content"} -> "content=c"
      [] params = {"query", "user_id"} -> "query=q, user_id=u9"

\* the action text as it stands in the response and in the step log
ActionText(a) ==
    CASE a.kind = "direct" -> "Direct[" \o a.text \o "]"
      [] a.kind = "finish" -> "Finish[" \o a.text \o "]"
      [] a.kind = "malformed" -> "look it up"
      [] a.kind = "bare" -> a.name
      [] a.kind = "call" -> a.name \o "(" \o ParamText(a.params) \o ")"
      [] a.kind = "none" -> ""

\* lines 631-637: a bare registered tool name becomes  name()
Normalize(a) ==
    IF a.kind = "bare" THEN [kind |-> "call", name |-> a.name, params |-> {}, text |-> ""]
    ELSE a

\* line 613: action.startswith("Direct[") and action.endswith("]")
IsDirect(a) == a.kind = "direct"

\* DirectAnswer that keeps the wrapper
DirectAnswer_Whole(a) == ActionText(a)

\* line 615: direct_answer = action[7:-1].strip()
DirectAnswer(a) == Strip(a.text)

\* UnknownToolNote that does not say which tool
UnknownToolNote_Anonymous(name) == "unknown tool"

\* line 853: the note returned for a name that is not in tool_map
UnknownToolNote(name) == "unknown tool: " \o name

\* lines 847 and 905: the note for an action without parentheses
FormatErrorNote == "tool call format error"

\* the entries execution_history gets: lines 609-610 (the step label and
\* the action text, kept as one entry) and lines 616 / 642
HistoryAction(k, a) == [tag |-> "Action", step |-> k, text |-> ActionText(a)]
HistoryResult(k, res) == [tag |-> "Result", step |-> k, text |-> res]

\* the text a tool hands back may hold one of the substrings line 656
\* looks for
Wordings(res) == IF Detailed /\ res = "text" THEN {"plain", "failure"} ELSE {"plain"}

Worded(res, wording) == IF wording = "failure" THEN "text, failed" ELSE res

\* line 656: "error" / "failed" / "unknown" (in Chinese) in tool_result
FailureFlag(res) ==
    res \in {FormatErrorNote, "text, failed"} \cup {UnknownToolNote(n) : n \in {UnknownTool}}

\* InjectUserId that sets user_id whether or not the action text gave one
InjectUserId_Overwrite(name, params, es) ==
    IF name = "search_video_by_vector" /\ es.user_id # NoUser
    THEN [params |-> params \cup {"user_id"}, user_id |-> es.user_id]
    ELSE [params |-> params,
          user_id |-> IF "user_id" \in params THEN "from_model" ELSE NoUser]

\* lines 861-866: the parameters and the user_id value the registry receives
InjectUserId(name, params, es) ==
    IF name = "search_video_by_vector" /\ "user_id" \notin params /\ es.user_id # NoUser
    THEN [params |-> params \cup {"user_id"}, user_id |-> es.user_id]
    ELSE [params |-> params,
          user_id |-> IF "user_id" \in params THEN "from_model" ELSE NoUser]

\* AfterStep of a loop that re-prompts again while the response has no action
AfterStep_RepromptAgain(r, skipped) ==
    IF skipped THEN "recovery_llm"
    ELSE IF step_num[r] >= max_steps THEN "synthesis"
    ELSE IF step_num[r] >= Len(plan_steps[r]) THEN "synthesis"
    ELSE "loop"

\* how an iteration of the step loop ends: `continue` (a skipped step) goes
\* back to the loop header, the normal end of the body checks max_steps first
AfterStep(r, skipped) ==
    IF ~skipped /\ step_num[r] >= max_steps THEN "synthesis"
    ELSE IF step_num[r] >= Len(plan_steps[r]) THEN "synthesis"
    ELSE "loop"

\* ------------------------------------------------------------ events
Ev(type, n) == [type |-> type, step |-> n]
Sentinel == [type |-> "None", step |-> 0]

\* StepComplete with the step's result copied into the payload
StepComplete_Leaky(n, res) == [type |-> "step_complete", step |-> n, result |-> res]

\* the step_complete payload built after a step whose result is res:
\* {"type": "step_complete", "step_number": step_num}
StepComplete(n, res) == Ev("step_complete", n)

\* QueuePut on a queue that hands out the newest item first
QueuePut_Lifo(q, ev) == <<ev>> \o q

\* stream_callback of /chat/stream: await event_queue.put(event_data)
QueuePut(q, ev) == Append(q, ev)

\* what awaiting the sink can come to
SinkOutcomes(r) == IF sink[r] = "callback" THEN {"ok", "raise"} ELSE {"ok"}

\* if stream_callback: await stream_callback(ev)
Emit(r, ev, so) ==
    /\ events' = IF sink[r] # "none" /\ so = "ok"
                 THEN [events EXCEPT ![r] = Append(@, ev)] ELSE events
    /\ event_queue' = IF sink[r] = "queue" THEN QueuePut(event_queue, ev) ELSE event_queue
    /\ enqueued' = IF sink[r] = "queue" THEN Append(enqueued, ev) ELSE enqueued

\* an exception reaches  except Exception  of ainvoke
Raise(r, cause) ==
    /\ pc' = [pc EXCEPT ![r] = "handler"]
    /\ fault' = [fault EXCEPT ![r] = IF @ = "none" THEN cause ELSE @]

Goto(r, where) ==
    /\ pc' = [pc EXCEPT ![r] = where]
    /\ UNCHANGED fault

restOfStream == <<delivered, task, consumer, exitBy, heartbeats>>

\* the event-loop thread is held by a callable that never returns: no
\* coroutine of the process is resumed any more
LoopBlocked == \E r \in Runs : pc[r] = "blocked"

\* ainvoke up to its first await: lines 425-457
AInvokeBody(r) ==
    /\ pc[r] = "idle" /\ ~LoopBlocked
    /\ execution_state' = FreshState(ExtractUserId(user_input[r]))
    /\ \E so \in SinkOutcomes(r) :
         /\ Emit(r, Ev("planning_start", 0), so)
         /\ IF so = "raise" THEN Raise(r, "sink") ELSE Goto(r, "planning")
    /\ UNCHANGED <<cfgVars, self_current_step, plan_steps, logVars, step_num, call, output,
                   calls, llm_calls, outcomes>>

\* a caller awaits executor.ainvoke(inputs)
AInvoke(r) ==
    /\ r \in active
    /\ task = "none" /\ pr_pc = "none"
    /\ AInvokeBody(r)
    /\ UNCHANGED <<restOfStream, agentVars>>

\* _planning_phase and lines 462-477
PlanningPhase(r) ==
    /\ pc[r] = "planning"
    /\ llm_calls' = [llm_calls EXCEPT ![r] = @ + 1]
    /\ \/ /\ Raise(r, "llm")
          /\ UNCHANGED <<execution_state, plan_steps, logVars, events, event_queue, enqueued, output>>
       \/ \E n \in 0..PlanCap :
            /\ execution_state' = [execution_state EXCEPT !.plan = PlanOf(r, n)]
            /\ plan_steps' = [plan_steps EXCEPT ![r] = PlanOf(r, n)]
            /\ IF n = 0
               THEN /\ Goto(r, "done")
                    /\ output' = [output EXCEPT ![r] = "plan_failure"]
                    /\ UNCHANGED <<events, event_queue, enqueued>>
               ELSE /\ UNCHANGED output
                    /\ \E so \in SinkOutcomes(r) :
                         /\ Emit(r, Ev("planning_complete", 0), so)
                         /\ IF so = "raise" THEN Raise(r, "sink")
                            ELSE Goto(r, "execution_start")
    /\ UNCHANGED <<cfgVars, self_current_step, logVars, step_num, call, calls, outcomes,
                   restOfStream, agentVars>>

\* lines 486-493
ExecutionStart(r) ==
    /\ pc[r] = "execution_start"
    /\ \E so \in SinkOutcomes(r) :
         /\ Emit(r, Ev("execution_start", 0), so)
         /\ IF so = "raise" THEN Raise(r, "sink") ELSE Goto(r, "loop")
    /\ UNCHANGED <<cfgVars, instVars, plan_steps, logVars, step_num, call, output, calls,
                   llm_calls, outcomes, restOfStream, agentVars>>

\* loop header and lines 555-565
StepStart(r) ==
    /\ pc[r] = "loop"
    /\ step_num' = [step_num EXCEPT ![r] = @ + 1]
    /\ self_current_step' = step_num[r] + 1
    /\ \E so \in SinkOutcomes(r) :
         /\ Emit(r, Ev("step_start", step_num[r] + 1), so)
         /\ IF so = "raise" THEN Raise(r, "sink") ELSE Goto(r, "step_llm")
    /\ UNCHANGED <<cfgVars, execution_state, plan_steps, logVars, call, output, calls,
                   llm_calls, outcomes, restOfStream, agentVars>>

\* AfterResult of a loop that stops at a result the flag of line 656 marks
AfterResult_BreakOnFailure(r, flagged) ==
    IF flagged THEN "synthesis" ELSE AfterStep(r, FALSE)

\* lines 655-662: the flag is logged, then the max_steps check
AfterResult(r, flagged) == AfterStep(r, FALSE)

\* lines 642-662: log and record the result, emit step_complete, log,
\* check max_steps; history is the step log up to the result
RecordResult(r, res, history) ==
    /\ execution_history' = [execution_history EXCEPT
                                ![r] = Append(history, HistoryResult(step_num[r], res))]
    /\ execution_state' = [execution_state EXCEPT !.results[step_num[r]] = res]
    /\ \E so \in SinkOutcomes(r) :
         /\ Emit(r, StepComplete(step_num[r], res), so)
         /\ IF so = "raise" THEN Raise(r, "sink")
            ELSE IF ~IsStr(res) THEN Raise(r, "result")
            ELSE Goto(r, AfterResult(r, FailureFlag(res)))

\* lines 608-641 and _execute_tool up to its await (lines 843-891)
HandleAction(r, a0) ==
    LET a == Normalize(a0)
        history == Append(execution_history[r], HistoryAction(step_num[r], a0))
    IN
    IF IsDirect(a) THEN
        /\ execution_history' = [execution_history EXCEPT
                ![r] = Append(history, HistoryResult(step_num[r], DirectAnswer(a)))]
        /\ execution_state' = [execution_state EXCEPT
                                 !.results[step_num[r]] = DirectAnswer(a)]
        /\ \E so \in SinkOutcomes(r) :
             /\ Emit(r, StepComplete(step_num[r], DirectAnswer(a)), so)
             /\ IF so = "raise" THEN Raise(r, "sink") ELSE Goto(r, AfterStep(r, FALSE))
        /\ outcomes' = [outcomes EXCEPT ![r][step_num[r]] = "direct"]
        /\ UNCHANGED <<call, calls>>
    ELSE IF a.kind # "call" THEN
        /\ RecordResult(r, FormatErrorNote, history)
        /\ outcomes' = [outcomes EXCEPT ![r][step_num[r]] = "no_call"]
        /\ UNCHANGED <<call, calls>>
    ELSE IF a.name \notin ToolNames THEN
        /\ RecordResult(r, UnknownToolNote(a.name), history)
        /\ outcomes' = [outcomes EXCEPT ![r][step_num[r]] = "no_call"]
        /\ UNCHANGED <<call, calls>>
    ELSE
        LET inj == InjectUserId(a.name, a.params, execution_state)
            c == [run |-> r, step |-> step_num[r], name |-> a.name, parsed |-> a.params,
                  params |-> inj.params, user_id |-> inj.user_id]
        IN /\ execution_history' = [execution_history EXCEPT ![r] = history]
           /\ execution_state' = [execution_state EXCEPT !.current_tool = a.name]
           /\ call' = [call EXCEPT ![r] = c]
           /\ calls' = Append(calls, c)
           /\ Goto(r, "tool_wait")
           /\ UNCHANGED <<events, event_queue, enqueued, outcomes>>

\* lines 580-587 and the branch taken on the parsed action
StepLLM(r) ==
    /\ pc[r] = "step_llm"
    /\ llm_calls' = [llm_calls EXCEPT ![r] = @ + 1]
    /\ \/ /\ Raise(r, "llm")
          /\ UNCHANGED <<execution_state, execution_history, call, calls, events,
                         event_queue, enqueued, outcomes>>
       \/ \E a \in ActionChoices :
            IF a.kind = "none"
            THEN /\ Goto(r, "recovery_llm")
                 /\ UNCHANGED <<execution_state, execution_history, call, calls, events,
                                event_queue, enqueued, outcomes>>
            ELSE HandleAction(r, a)
    /\ UNCHANGED <<cfgVars, self_current_step, plan_steps, summary_response, step_num,
                   output, restOfStream, agentVars>>

\* RecoveryLLM of a loop that records a failure note for the step it skips
RecoveryLLM_RecordsSkip(r) ==
    /\ pc[r] = "recovery_llm"
    /\ llm_calls' = [llm_calls EXCEPT ![r] = @ + 1]
    /\ \/ /\ Raise(r, "llm")
          /\ UNCHANGED <<execution_state, execution_history, call, calls, events,
                         event_queue, enqueued, outcomes>>
       \/ \E a \in ActionChoices :
            IF a.kind = "none"
            THEN /\ RecordResult(r, FormatErrorNote, execution_history[r])
                 /\ outcomes' = [outcomes EXCEPT ![r][step_num[r]] = "skipped"]
                 /\ UNCHANGED <<call, calls>>
            ELSE HandleAction(r, a)
    /\ UNCHANGED <<cfgVars, self_current_step, plan_steps, summary_response, step_num,
                   output, restOfStream, agentVars>>

\* lines 589-606: the single recovery re-prompt; still no action -> continue
RecoveryLLM(r) ==
    /\ pc[r] = "recovery_llm"
    /\ llm_calls' = [llm_calls EXCEPT ![r] = @ + 1]
    /\ \/ /\ Raise(r, "llm")
          /\ UNCHANGED <<execution_state, execution_history, call, calls, events,
                         event_queue, enqueued, outcomes>>
       \/ \E a \in ActionChoices :
            IF a.kind = "none"
            THEN /\ Goto(r, AfterStep(r, TRUE))
                 /\ outcomes' = [outcomes EXCEPT ![r][step_num[r]] = "skipped"]
                 /\ UNCHANGED <<execution_state, execution_history, call, calls, events,
                                event_queue, enqueued>>
            ELSE HandleAction(r, a)
    /\ UNCHANGED <<cfgVars, self_current_step, plan_steps, summary_response, step_num,
                   output, restOfStream, agentVars>>

\* ToolReturn of an executor that calls the registry once more when the
\* ToolResponse is a failure
ToolReturn_RetryOnFailure(r) ==
    /\ pc[r] = "tool_wait"
    /\ \E oc \in RegistryOutcomes(call[r].name, call[r].params) :
         IF oc = "failed" /\ Len(calls) < 2 * MaxPlan
         THEN /\ calls' = Append(calls, call[r])
              /\ UNCHANGED <<pc, fault, outcomes, execution_state, execution_history,
                             events, event_queue, enqueued>>
         ELSE /\ outcomes' = [outcomes EXCEPT ![r][step_num[r]] = oc]
              /\ UNCHANGED calls
              /\ IF oc = "blocks"
                 THEN /\ Goto(r, "blocked")
                      /\ UNCHANGED <<execution_state, execution_history, events,
                                     event_queue, enqueued>>
                 ELSE \E w \in Wordings(ToolResultOf(oc, call[r].name)) :
                        RecordResult(r, Worded(ToolResultOf(oc, call[r].name), w),
                                     execution_history[r])
    /\ UNCHANGED <<cfgVars, self_current_step, plan_steps, summary_response, step_num,
                   call, output, llm_calls, restOfStream, agentVars>>

\* lines 885-903 after the await, then lines 642-662
ToolReturn(r) ==
    /\ pc[r] = "tool_wait"
    /\ \E oc \in RegistryOutcomes(call[r].name, call[r].params) :
         /\ outcomes' = [outcomes EXCEPT ![r][step_num[r]] = oc]
         /\ IF oc = "blocks"
            THEN /\ Goto(r, "blocked")
                 /\ UNCHANGED <<execution_state, execution_history, events, event_queue,
                                enqueued>>
            ELSE \E w \in Wordings(ToolResultOf(oc, call[r].name)) :
                   RecordResult(r, Worded(ToolResultOf(oc, call[r].name), w),
                                execution_history[r])
    /\ UNCHANGED <<cfgVars, self_current_step, plan_steps, summary_response, step_num,
                   call, output, calls, llm_calls, restOfStream, agentVars>>

\* lines 664-691 and 503-510
Synthesis(r) ==
    /\ pc[r] = "synthesis"
    /\ llm_calls' = [llm_calls EXCEPT ![r] = @ + 1]
    /\ \/ /\ Raise(r, "llm")
          /\ UNCHANGED <<execution_state, summary_response, events, event_queue, enqueued,
                         output>>
       \/ \E response \in SummaryResponses :
            /\ summary_response' = [summary_response EXCEPT ![r] = response]
            /\ execution_state' = [execution_state EXCEPT !.status = "completed"]
            /\ \E so \in SinkOutcomes(r) :
                 /\ Emit(r, Ev("complete", 0), so)
                 /\ IF so = "raise"
                    THEN Raise(r, "sink") /\ UNCHANGED output
                    ELSE /\ Goto(r, "done")
                         /\ output' = [output EXCEPT
                                         ![r] = extract_final_answer(response)]
    /\ UNCHANGED <<cfgVars, self_current_step, plan_steps, execution_history, step_num,
                   call, calls, outcomes, restOfStream, agentVars>>

\* lines 512-519
Handler(r) ==
    /\ pc[r] = "handler"
    /\ \E so \in SinkOutcomes(r) :
         /\ Emit(r, Ev("error", 0), so)
         /\ IF so = "raise"
            THEN pc' = [pc EXCEPT ![r] = "raised"] /\ UNCHANGED output
            ELSE /\ pc' = [pc EXCEPT ![r] = "done"]
                 /\ output' = [output EXCEPT ![r] = "apology"]
    /\ UNCHANGED <<cfgVars, instVars, plan_steps, logVars, step_num, call, fault, calls,
                   llm_calls, outcomes, restOfStream, agentVars>>

RunStep(r) ==
    /\ ~LoopBlocked
    /\ \/ PlanningPhase(r)
       \/ ExecutionStart(r)
       \/ StepStart(r)
       \/ StepLLM(r)
       \/ RecoveryLLM(r)
       \/ ToolReturn(r)
       \/ Synthesis(r)
       \/ Handler(r)

\* --------------------------------------------------------- one run
IdleRun ==
    /\ execution_state = [plan |-> <<>>, results |-> NoResults, user_id |-> NoUser,
                          current_tool |-> "none", status |-> "unset"]
    /\ self_current_step = 0
    /\ pc = [r \in Runs |-> "idle"]
    /\ plan_steps = [r \in Runs |-> <<>>]
    /\ step_num = [r \in Runs |-> 0]
    /\ call = [r \in Runs |-> [run |-> r, step |-> 0, name |-> "", parsed |-> {},
                               params |-> {}, user_id |-> NoUser]]
    /\ events = [r \in Runs |-> <<>>]
    /\ output = [r \in Runs |-> "pending"]
    /\ fault = [r \in Runs |-> "none"]
    /\ calls = <<>>
    /\ llm_calls = [r \in Runs |-> 0]
    /\ outcomes = [r \in Runs |-> [i \in 1..MaxPlan |-> "unset"]]
    /\ execution_history = [r \in Runs |-> <<>>]
    /\ summary_response = [r \in Runs |-> NoSummary]

NoStream ==
    /\ event_queue = <<>> /\ enqueued = <<>> /\ delivered = <<>>
    /\ task = "none" /\ consumer = "none" /\ exitBy = "none" /\ heartbeats = 0

NoAgent ==
    /\ pr_pc = "none" /\ pr_request = "none" /\ pr_executor = "none"
    /\ pr_result = [kind |-> "none", cls |-> "none", resp |-> [shape |-> "none", ans |-> "none"]]

Init ==
    /\ active = {1}
    /\ sink \in [Runs -> {"none", "callback"}] /\ sink[2] = "none"
    /\ max_steps \in 1..MaxStepsCap
    /\ user_input \in {f \in [Runs -> UNION {RequestTexts(r) : r \in Runs}] :
                         \A r \in Runs : f[r] \in RequestTexts(r)}
    /\ user_input[2].marker = NoUser
    /\ IdleRun /\ NoStream /\ NoAgent /\ RegistryAtStartup /\ NoRoutine

Next == \E r \in Runs : AInvoke(r) \/ RunStep(r)

Spec == Init /\ [][Next]_vars


\* ================================================== properties, one run
Terminated(r) == pc[r] \in {"done", "raised"}

Min(a, b) == IF a < b THEN a ELSE b

Count(seq, type) == Cardinality({i \in 1..Len(seq) : seq[i].type = type})

HasEvent(seq, type, n) == \E i \in 1..Len(seq) : seq[i] = Ev(type, n)

RECURSIVE StepEvents(_, _)
StepEvents(k, n) ==
    IF k > n THEN <<>>
    ELSE <<Ev("step_start", k), Ev("step_complete", k)>> \o StepEvents(k + 1, n)

ExpectedEvents(n) ==
    <<Ev("planning_start", 0), Ev("planning_complete", 0), Ev("execution_start", 0)>>
    \o StepEvents(1, n) \o <<Ev("complete", 0)>>

\* no step the run went through was skipped as unparseable
NoStepSkipped(r) == \A k \in 1..step_num[r] : execution_state.results[k] # "unset"

\* the generation model and the sink never raised in run r
NoModelOrSinkFault(r) == fault[r] \notin {"llm", "sink"}

\* run r returned the final answer of its summary response
NormalOutput(r) ==
    /\ summary_response[r] # NoSummary
    /\ output[r] = extract_final_answer(summary_response[r])

\* C1: a finished run with a sink, a plan of N <= max_steps steps and a
\* parseable action at every step has passed exactly planning_start,
\* planning_complete, execution_start, (step_start k, step_complete k) for
\* k = 1..N, complete to the sink, whatever the tools came to.
C1_EventSequence ==
    ( /\ sink[1] = "callback" /\ Terminated(1)
      /\ Len(plan_steps[1]) >= 1 /\ Len(plan_steps[1]) <= max_steps
      /\ NoModelOrSinkFault(1) /\ NoStepSkipped(1) )
    => events[1] = ExpectedEvents(Len(plan_steps[1]))

\* C2: when the registry hands back a failed ToolResponse for a step, the
\* failure is that step's recorded result, the remaining steps run,
\* synthesis runs and the run ends with complete and a normal output.
C2_FailedResultContinues ==
    \A k \in 1..MaxPlan :
        ( /\ Terminated(1) /\ outcomes[1][k] = "failed" /\ NoModelOrSinkFault(1) )
        => /\ execution_state.results[k] = "none"
           /\ step_num[1] >= Min(Len(plan_steps[1]), max_steps)
           /\ NormalOutput(1)
           /\ (sink[1] = "callback" =>
                 /\ events[1][Len(events[1])] = Ev("complete", 0)
                 /\ Count(events[1], "error") = 0)

\* C3: whatever raised inside a run (model, tool-result handling, sink),
\* ainvoke does not raise, emits exactly one error event and returns the
\* apology.
C3_RunNeverRaises ==
    /\ pc[1] # "raised"
    /\ (pc[1] = "done" /\ fault[1] # "none") =>
          /\ output[1] = "apology"
          /\ (sink[1] = "callback" => Count(events[1], "error") = 1)

\* C4: a planning response with zero steps ends the run with no further
\* model call, no step started, an error event and a failure message.
C4_EmptyPlanFails ==
    ( /\ Terminated(1) /\ NoModelOrSinkFault(1) /\ llm_calls[1] >= 1
      /\ Len(plan_steps[1]) = 0 )
    => /\ llm_calls[1] = 1
       /\ step_num[1] = 0
       /\ output[1] = "plan_failure"
       /\ (sink[1] = "callback" => Count(events[1], "error") = 1)

\* C5: the number of steps started never exceeds min(len(plan), max_steps).
C5_StepsBounded ==
    /\ step_num[1] <= Min(Len(plan_steps[1]), max_steps)
    /\ Count(events[1], "step_start") <= Min(Len(plan_steps[1]), max_steps)

Phase(r) ==
    CASE pc[r] = "idle" -> "NotStarted"
      [] pc[r] = "planning" -> "Planning"
      [] pc[r] \in {"execution_start", "loop", "step_llm", "recovery_llm", "tool_wait",
                    "blocked"} -> "Executing"
      [] pc[r] = "synthesis" -> "Synthesizing"
      [] pc[r] = "done" /\ NormalOutput(r) -> "Completed"
      [] OTHER -> "Failed"

PhaseRank(phase) ==
    CASE phase = "NotStarted" -> 0
      [] phase = "Planning" -> 1
      [] phase = "Executing" -> 2
      [] phase = "Synthesizing" -> 3
      [] phase = "Completed" -> 4
      [] phase = "Failed" -> 5

\* steps of run r skipped after the recovery re-prompt
SkippedSteps(r) == {k \in 1..MaxPlan : outcomes[r][k] = "skipped"}

C23_Step ==
    \* the phases in order, Failed from anywhere, nothing after the end
    /\ LET before == PhaseRank(Phase(1))
           after == PhaseRank(Phase(1))'
       IN after \in {before, before + 1, 5}
    /\ (Terminated(1) => /\ llm_calls' = llm_calls /\ calls' = calls
                     /\ events' = events /\ pc' = pc)
    \* a model call is the planning call, a step call, the re-prompt or the
    \* synthesis call
    /\ llm_calls'[1] \in {llm_calls[1], llm_calls[1] + 1}
    /\ (llm_calls'[1] # llm_calls[1] =>
          pc[1] \in {"planning", "step_llm", "recovery_llm", "synthesis"})
    \* one planning call and one synthesis call
    /\ (pc[1] = "planning" /\ pc'[1] # pc[1] => llm_calls[1] = 0 /\ llm_calls'[1] = 1)
    /\ (pc[1] = "synthesis" /\ llm_calls'[1] # llm_calls[1] => pc'[1] # "synthesis")
    \* a step starts with one call; the re-prompt follows a first response
    \* only and is followed by no call for the same step
    /\ (pc'[1] = "step_llm" /\ pc[1] # "step_llm" =>
          pc[1] = "loop" /\ step_num'[1] = step_num[1] + 1)
    /\ (pc[1] = "step_llm" /\ pc'[1] # pc[1] =>
          llm_calls'[1] = llm_calls[1] + 1 /\ step_num'[1] = step_num[1])
    /\ (pc'[1] = "recovery_llm" /\ pc[1] # "recovery_llm" => pc[1] = "step_llm")
    /\ (pc[1] = "recovery_llm" /\ llm_calls'[1] # llm_calls[1] =>
          pc'[1] \notin {"recovery_llm", "step_llm"})

C23_State ==
    /\ (Phase(1) \in {"NotStarted", "Planning"} => llm_calls[1] = 0 /\ step_num[1] = 0)
    /\ (Phase(1) \in {"Executing", "Synthesizing", "Completed"} =>
          /\ llm_calls[1] >= 1 + step_num[1] + Cardinality(SkippedSteps(1))
                              + (IF Phase(1) = "Completed" THEN 1 ELSE 0)
                              - (IF pc[1] = "step_llm" THEN 1 ELSE 0)
          /\ llm_calls[1] <= 1 + 2 * step_num[1]
                              + (IF Phase(1) = "Completed" THEN 1 ELSE 0)
                              - (IF pc[1] = "step_llm" THEN 2 ELSE 0)
                              - (IF pc[1] = "recovery_llm" THEN 1 ELSE 0))
    /\ (Phase(1) = "Completed" =>
          /\ execution_state.status = "completed"
          /\ Len(plan_steps[1]) >= 1)

\* C23: a primary run goes through Planning, Executing, Synthesizing,
\* Completed in this order and never back, and may fail from any of them;
\* it makes one planning call, one call per started step plus at most one
\* re-prompt (made only when the first response of the step had no action),
\* and one synthesis call; once it has returned it makes no model call, no
\* registry call and emits no event.
C23_PhasesAndCalls == []C23_State /\ [][C23_Step]_vars

\* a completed run of two steps whose first step was skipped after the
\* re-prompt and whose second step got its action from the re-prompt
C23_Witness ==
    /\ Phase(1) = "Completed" /\ step_num[1] = 2
    /\ outcomes[1][1] = "skipped" /\ outcomes[1][2] = "direct"
    /\ llm_calls[1] = 6

\* ------------------------------------------------------- a skipped step
\* the step in which the re-prompt, too, brings no action
SkipOf(k) == outcomes[1][k] # "skipped" /\ outcomes'[1][k] = "skipped"

\* what the run holds of step k: its result, its log entries, its calls,
\* its step_complete event
Untouched(k) ==
    /\ execution_state.results[k] = "unset"
    /\ \A i \in 1..Len(execution_history[1]) : execution_history[1][i].step # k
    /\ \A i \in 1..Len(calls) : ~(calls[i].run = 1 /\ calls[i].step = k)
    /\ \A i \in 1..Len(events[1]) :
          events[1][i].step = k => events[1][i].type = "step_start"

C24_Step ==
    \A k \in 1..MaxPlan :
       SkipOf(k) =>
          /\ k = step_num[1] /\ pc[1] = "recovery_llm"
          /\ UNCHANGED <<execution_state, execution_history, calls, events, call>>
          /\ pc'[1] = IF k < Len(plan_steps[1]) THEN "loop" ELSE "synthesis"
          /\ fault'[1] = "none"

C24_State ==
    /\ \A k \in SkippedSteps(1) : Untouched(k)
    /\ (pc[1] = "done" /\ fault[1] = "none" /\ SkippedSteps(1) # {} =>
          /\ Phase(1) = "Completed"
          /\ (sink[1] = "callback" => events[1][Len(events[1])].type = "complete"))

WrapperForms == {ActionText(a) : a \in {c \in ActionChoices : c.kind \in {"direct", "finish"}}}

\* action texts of the form  name(...)
CallForms == {ActionText(a) : a \in {c \in ActionChoices : c.kind = "call"}}

\* the x of a text  Direct[x]  or  Finish[x]
WrappedText(text) ==
    LET a == CHOOSE c \in ActionChoices :
                c.kind \in {"direct", "finish"} /\ ActionText(c) = text
    IN Strip(a.text)

\* C25: an action  Direct[x]  or  Finish[x]  gives the step the result x and
\* no registry call, and only actions of one of the forms  Direct[x],
\* Finish[x],  name(...)  (or the bare name of a registered tool, which the
\* loop completes to  name())  are logged and get a step result: every
\* other action text goes the way of the re-prompt.
C25_Classification ==
    \A i \in 1..Len(execution_history[1]) :
       LET e == execution_history[1][i] IN
       e.tag = "Action" =>
          /\ e.text \in WrapperForms \cup CallForms \cup ToolNames
          /\ (e.text \in WrapperForms =>
                /\ i < Len(execution_history[1])
                /\ execution_history[1][i + 1] = HistoryResult(e.step, WrappedText(e.text))
                /\ execution_state.results[e.step] = WrappedText(e.text)
                /\ \A j \in 1..Len(calls) : calls[j].step # e.step)

\* ------------------------------------------------------ an unknown tool
\* step k of run 1 got an action that names a tool the registry does not have
UnknownToolStep(k) ==
    \E i \in 1..Len(execution_history[1]) :
       /\ execution_history[1][i].tag = "Action"
       /\ execution_history[1][i].step = k
       /\ execution_history[1][i].text = UnknownTool \o "()"

\* C26: a step whose action names an unregistered tool makes no registry
\* call; its result is the failure note with the name of the tool; its
\* step_complete is emitted; the run does not fail at it, and a run
\* that meets no other failure takes its remaining steps and ends with its
\* answer and the complete event.
C26_UnknownTool ==
    \A k \in 1..MaxPlan :
       UnknownToolStep(k) =>
          /\ \A j \in 1..Len(calls) : calls[j].step # k
          /\ execution_state.results[k] = "unknown tool: " \o UnknownTool
          /\ outcomes[1][k] = "no_call"
          /\ (fault[1] = "result" => step_num[1] # k)
          /\ (sink[1] = "callback" /\ ~(fault[1] = "sink" /\ step_num[1] = k)
                => HasEvent(events[1], "step_complete", k))
          /\ ( ( /\ Terminated(1) /\ NoModelOrSinkFault(1)
                 /\ \A j \in 1..MaxPlan :
                       outcomes[1][j] \notin {"success", "failed", "blocks"} )
               => /\ NormalOutput(1)
                  /\ step_num[1] >= Min(Len(plan_steps[1]), max_steps)
                  /\ (sink[1] = "callback" =>
                        events[1][Len(events[1])] = Ev("complete", 0)) )

\* a run with a sink named an unknown tool at its first step, went on to a
\* second step and ended with complete
C26_Witness ==
    /\ sink[1] = "callback" /\ pc[1] = "done" /\ NormalOutput(1)
    /\ UnknownToolStep(1) /\ step_num[1] >= 2
    /\ HasEvent(events[1], "step_complete", 1)
    /\ HasEvent(events[1], "step_start", 2)
    /\ events[1][Len(events[1])] = Ev("complete", 0)

\* ------------------------------------------------------ direct answers
\* action texts of the form  Direct[x]
DirectForms == {ActionText(a) : a \in {c \in ActionChoices : c.kind = "direct"}}

\* every step run 1 started was answered directly
AllDirect ==
    /\ step_num[1] >= 1
    /\ \A k \in 1..step_num[1] : outcomes[1][k] = "direct"

RecordsResult ==
    /\ step_num[1] >= 1
    /\ execution_state'.results # execution_state.results
    /\ IsStr(execution_state'.results[step_num[1]])
    /\ fault'[1] = fault[1]

\* C29: where a run goes after a step result, the calls it has made and the
\* events it has emitted are determined by the step number, the plan and
\* max_steps; a result text that holds one of the failure substrings
\* leads to the same next step, the same calls and the same events as one
\* that does not.
C29_FlagNoControl ==
    [][ RecordsResult =>
          /\ pc'[1] = IF step_num[1] >= max_steps \/ step_num[1] >= Len(plan_steps[1])
                      THEN "synthesis" ELSE "loop"
          /\ step_num'[1] = step_num[1]
          /\ calls' = calls
          /\ llm_calls'[1] = llm_calls[1] + (IF pc[1] = "tool_wait" THEN 0 ELSE 1)
          /\ events'[1] = IF sink[1] = "callback"
                          THEN Append(events[1], Ev("step_complete", step_num[1]))
                          ELSE events[1] ]_vars

\* a completed run whose first tool result held a failure substring and
\* whose second step was started all the same
C29_Witness ==
    /\ Phase(1) = "Completed" /\ sink[1] = "callback"
    /\ execution_state.results[1] = "text, failed" /\ FailureFlag("text, failed")
    /\ ~FailureFlag("text")
    /\ HasEvent(events[1], "step_start", 2)

\* ======================================================= /chat/stream
MaxHeartbeats == 2    \* heartbeat frames counted

\* ProducerFinally of a process_agent that has no finally clause
ProducerFinally_Missing(q) == q

\* process_agent, finally: await event_queue.put(None)
ProducerFinally(q) == Append(q, Sentinel)

\* event_queue.get(): the item taken and the queue left
QueueHead(q) == Head(q)
QueueRest(q) == Tail(q)

runLocals == <<plan_steps, logVars, step_num, call, output, fault, calls, llm_calls, outcomes>>

\* process_agent from its start to the first await inside ainvoke
\* (lines 382-417); create_agent may raise, which goes to except and finally
ProcessAgentStart ==
    /\ task = "created"
    /\ \/ /\ task' = "running"
          /\ AInvokeBody(1)
       \/ /\ task' = "finished"
          /\ event_queue' = ProducerFinally(QueuePut(event_queue, Ev("error", 0)))
          /\ enqueued' = ProducerFinally(Append(enqueued, Ev("error", 0)))
          /\ UNCHANGED <<cfgVars, instVars, pc, events, runLocals>>
    /\ UNCHANGED <<delivered, consumer, exitBy, heartbeats, agentVars>>

\* process_agent after ainvoke returned (lines 419-451) and finally
ProcessAgentFinish ==
    /\ task = "running"
    /\ pc[1] = "done"
    /\ task' = "finished"
    /\ event_queue' = ProducerFinally(QueuePut(event_queue, Ev("complete", 0)))
    /\ enqueued' = ProducerFinally(Append(enqueued, Ev("complete", 0)))
    /\ UNCHANGED <<cfgVars, instVars, pc, events, runLocals,
                   delivered, consumer, exitBy, heartbeats, agentVars>>

\* event_generator, lines 471-493: an item arrived before the poll timeout.
\* The producer task, created just before the loop, runs its first step
\* when the consumer first suspends.
ConsumerGet ==
    /\ consumer = "polling" /\ task # "created" /\ ~LoopBlocked
    /\ event_queue # <<>>
    /\ event_queue' = QueueRest(event_queue)
    /\ IF QueueHead(event_queue) = Sentinel
       THEN /\ consumer' = "cleanup"
            /\ exitBy' = "sentinel"
            /\ UNCHANGED delivered
       ELSE /\ delivered' = Append(delivered, QueueHead(event_queue))
            /\ UNCHANGED <<consumer, exitBy>>
    /\ UNCHANGED <<cfgVars, instVars, pc, events, runLocals, enqueued, task,
                   heartbeats, agentVars>>

\* lines 472-475: the poll timed out, a heartbeat frame is yielded
ConsumerHeartbeat ==
    /\ consumer = "polling" /\ task # "created" /\ ~LoopBlocked
    /\ heartbeats < MaxHeartbeats
    /\ heartbeats' = heartbeats + 1
    /\ UNCHANGED <<cfgVars, instVars, pc, events, runLocals, event_queue, enqueued,
                   delivered, task, consumer, exitBy, agentVars>>

\* the client goes away: the generator is closed or cancelled at a
\* suspension point, which runs its finally without a sentinel being seen
ConsumerAbort ==
    /\ consumer = "polling" /\ task # "created" /\ ~LoopBlocked
    /\ consumer' = "cleanup"
    /\ exitBy' = "abort"
    /\ UNCHANGED <<cfgVars, instVars, pc, events, runLocals, event_queue, enqueued,
                   delivered, task, heartbeats, agentVars>>

\* ConsumerCleanup of an event_generator whose finally neither cancels nor
\* awaits the producer task
ConsumerCleanup_NoCancel ==
    /\ consumer = "cleanup" /\ ~LoopBlocked
    /\ consumer' = "closed"
    /\ UNCHANGED <<task, pc, event_queue, enqueued>>
    /\ UNCHANGED <<cfgVars, instVars, events, runLocals, delivered, exitBy,
                   heartbeats, agentVars>>

\* lines 500-508: cancel the producer if it is not done and await it; the
\* CancelledError passes  except Exception  of ainvoke and of process_agent
\* and runs process_agent's finally
ConsumerCleanup ==
    /\ consumer = "cleanup" /\ ~LoopBlocked
    /\ consumer' = "closed"
    /\ IF task = "running"
       THEN /\ task' = "cancelled"
            /\ pc' = [pc EXCEPT ![1] = "cancelled"]
            /\ event_queue' = ProducerFinally(event_queue)
            /\ enqueued' = ProducerFinally(enqueued)
       ELSE UNCHANGED <<task, pc, event_queue, enqueued>>
    /\ UNCHANGED <<cfgVars, instVars, events, runLocals, delivered, exitBy,
                   heartbeats, agentVars>>

InitStream ==
    /\ active = {1}
    /\ sink = [r \in Runs |-> IF r = 1 THEN "queue" ELSE "none"]
    /\ max_steps \in 1..MaxStepsCap
    /\ user_input \in {f \in [Runs -> UNION {RequestTexts(r) : r \in Runs}] :
                         \A r \in Runs : f[r] \in RequestTexts(r)}
    /\ user_input[1].marker = NoUser /\ user_input[2].marker = NoUser
    /\ IdleRun /\ NoAgent /\ RegistryAtStartup /\ NoRoutine
    /\ event_queue = <<>> /\ enqueued = <<>> /\ delivered = <<>>
    /\ task = "created" /\ consumer = "polling" /\ exitBy = "none" /\ heartbeats = 0

NextStream ==
    \/ ProcessAgentStart
    \/ ProcessAgentFinish
    \/ ConsumerGet
    \/ ConsumerHeartbeat
    \/ ConsumerAbort
    \/ ConsumerCleanup
    \/ RunStep(1)

SpecStream == InitStream /\ [][NextStream]_vars


\* ================================================ properties, stream
TaskEnded == task \in {"finished", "cancelled"}

SentinelsIn(q) == Cardinality({i \in 1..Len(q) : q[i] = Sentinel})

IsPrefix(a, b) == Len(a) <= Len(b) /\ \A i \in 1..Len(a) : a[i] = b[i]

\* the events put on the queue, the sentinel left out
EventsOf(q) == SelectSeq(q, LAMBDA x : x # Sentinel)

\* the queue holds what was put on it and not yet taken, in order
C9_QueueState ==
    /\ (TaskEnded => /\ SentinelsIn(enqueued) = 1
                     /\ enqueued[Len(enqueued)] = Sentinel)
    /\ (~TaskEnded => SentinelsIn(enqueued) = 0)
    /\ (TaskEnded /\ exitBy # "sentinel" =>
          event_queue # <<>> /\ event_queue[Len(event_queue)] = Sentinel)
    /\ (exitBy = "sentinel" => TaskEnded /\ event_queue = <<>>)

C9_Step ==
    /\ (SentinelsIn(enqueued) >= 1 => enqueued' = enqueued)
    /\ (consumer # "polling" => delivered' = delivered)
    /\ (consumer = "polling" /\ event_queue # <<>> /\ event_queue' = QueueRest(event_queue)
          /\ QueueHead(event_queue) = Sentinel
        => consumer' = "cleanup" /\ exitBy' = "sentinel")
    /\ (exitBy = "none" /\ exitBy' = "sentinel"
        => event_queue # <<>> /\ QueueHead(event_queue) = Sentinel)

\* C9: however the producer task ends (return, exception, cancellation)
\* exactly one sentinel has been put on the queue and it is the last item
\* ever put there; the consumer loop ends when it takes the sentinel and
\* yields no event frame afterwards.
C9_SentinelLast == []C9_QueueState /\ [][C9_Step]_vars

\* the producer was cancelled in the middle of a run, after the consumer
\* had yielded events, and the sentinel closes what was put on the queue
C9_Witness ==
    /\ task = "cancelled" /\ pc[1] = "cancelled" /\ consumer = "closed"
    /\ Len(delivered) >= 2
    /\ SentinelsIn(enqueued) = 1 /\ enqueued[Len(enqueued)] = Sentinel

\* what a cancelled run may not do any more: emit, call the generation
\* model, call the registry, move, or put anything on the queue
C11_Step ==
    task = "cancelled" =>
       /\ events' = events /\ llm_calls' = llm_calls /\ calls' = calls
       /\ pc' = pc /\ step_num' = step_num
       /\ enqueued' = enqueued /\ task' = task

C11_State ==
    /\ (task = "cancelled" =>
          /\ pc[1] = "cancelled"
          /\ consumer = "closed"
          /\ enqueued # <<>> /\ enqueued[Len(enqueued)] = Sentinel
          /\ delivered \o EventsOf(event_queue) = EventsOf(enqueued))
    /\ (consumer = "closed" => TaskEnded)

StreamOver == TaskEnded /\ consumer = "closed"

\* C12: a streamed run never hangs.  As long as the stream is not over,
\* the producer or the consumer can take a step (so that under fair
\* scheduling the sentinel is eventually put and the consumer loop
\* eventually exits), also while a tool that never returns is being awaited.
C12_NeverHangs == ~StreamOver => ENABLED NextStream

\* the frames the client of /chat/stream has received: the connected frame
\* yielded before the queue exists (lines 365-367), then the event frames
Frames == <<Ev("connected", 0)>> \o delivered

IsTerminal(ev) == ev.type \in {"complete", "error"}

\* C13: the messages of a streamed run start with connected, hold at most
\* one terminal message (complete or error) and nothing after it, and hold
\* exactly one once the consumer has taken the sentinel: no complete
\* follows an error and no second complete is delivered.
C13_OneTerminal ==
    /\ Frames[1].type = "connected"
    /\ \A i \in 2..Len(Frames) : Frames[i].type # "connected"
    /\ \A i \in 1..Len(Frames) : IsTerminal(Frames[i]) => i = Len(Frames)
    /\ (exitBy = "sentinel" => IsTerminal(Frames[Len(Frames)]))

\* C10: whatever the interleaving of puts, polls and poll timeouts, the
\* event frames yielded are at every moment the first events put on the
\* queue, in the order they were put, and once the consumer has taken the
\* sentinel they are all of them.
C10_OrderedDelivery ==
    /\ IsPrefix(delivered, EventsOf(enqueued))
    /\ (exitBy = "sentinel" => delivered = EventsOf(enqueued))
    /\ (consumer = "polling" => delivered \o EventsOf(event_queue) = EventsOf(enqueued))

\* a run of two steps was delivered whole, with heartbeats in between
C10_Witness ==
    /\ exitBy = "sentinel" /\ heartbeats = MaxHeartbeats
    /\ Len(delivered) >= 8
    /\ delivered = EventsOf(enqueued)
    /\ delivered[Len(delivered)] = Ev("complete", 0)


\* the run has been suspended at an await since its last emission: it is
\* waiting for the model (lines 461, 582, 598, 680), for the registry under
\* wait_for (line 885) or has passed the asyncio.sleep(0) that follows
\* planning_start, planning_complete and execution_start (lines 457, 477,
\* 493); at the loop header after a step and in the except block it is
\* where the last await left it
YieldedSinceEmit(r) ==
    \/ pc[r] \in {"planning", "execution_start", "step_llm", "recovery_llm", "tool_wait",
                  "synthesis"}
    \/ pc[r] = "loop" /\ (step_num[r] = 0 \/ outcomes[r][step_num[r]] = "skipped")
    \/ pc[r] = "handler" /\ fault[r] = "llm"

\* C30: between two consecutive emissions of the run behind /chat/stream
\* the producer is suspended at least once, so that the consumer can take
\* the earlier event off the queue before the later one is put: every
\* event after the first is emitted by a run that has been suspended since
\* its last emission.
C30_YieldBetweenEmits ==
    [][ (events'[1] # events[1] /\ events[1] # <<>>) => YieldedSinceEmit(1) ]_vars

\* ============================================ Agent.process_request
\* what the request text is to lines 1269-1276: it holds a date keyword,
\* a time keyword (and no date keyword), neither, or it is not a str
RequestKinds == {"date", "time", "plain", "not_text"}

\* what a value is to line 1311:  "text" a str with visible characters,
\* "empty" the empty str, "blank" a whitespace-only str, "no_response" the
\* str "无法生成响应", "none" None, "object" a truthy value without strip()
AnswerClasses == {"text", "empty", "blank", "no_response", "none", "object"}

\* what awaiting an executor other than the primary one can come to
OtherResponses ==
    { [shape |-> sh, ans |-> c] : sh \in {"dict_output", "bare"}, c \in AnswerClasses }
    \cup { [shape |-> "dict_no_output", ans |-> "object"],
           [shape |-> "dict_empty", ans |-> "empty"],
           [shape |-> "raise", ans |-> "none"] }

\* the three strings ainvoke of the primary executor returns as output
OutputClass(out) == "text"

\* ProcessAnswer without the whitespace test of line 1311
ProcessAnswer_NoStrip(resp) ==
    IF resp.shape = "raise" THEN [kind |-> "apology", cls |-> "text", resp |-> resp]
    ELSE IF resp.ans \in {"empty", "none"}
         THEN [kind |-> "cannot_answer", cls |-> "text", resp |-> resp]
    ELSE IF resp.ans = "object"
         THEN [kind |-> "apology", cls |-> "text", resp |-> resp]
    ELSE IF resp.ans = "no_response"
         THEN [kind |-> "cannot_answer", cls |-> "text", resp |-> resp]
    ELSE [kind |-> "answer", cls |-> resp.ans, resp |-> resp]

\* lines 1299-1322: from the executor's response to the returned string
ProcessAnswer(resp) ==
    IF resp.shape = "raise" THEN [kind |-> "apology", cls |-> "text", resp |-> resp]
    ELSE IF resp.ans \in {"empty", "none"}
         THEN [kind |-> "cannot_answer", cls |-> "text", resp |-> resp]
    ELSE IF resp.ans = "object"
         THEN [kind |-> "apology", cls |-> "text", resp |-> resp]
    ELSE IF resp.ans \in {"blank", "no_response"}
         THEN [kind |-> "cannot_answer", cls |-> "text", resp |-> resp]
    ELSE [kind |-> "answer", cls |-> resp.ans, resp |-> resp]

NoResponse == [shape |-> "none", ans |-> "none"]

\* ProcessRequest without the fast path of lines 1276-1281: a time question
\* goes to the executor
ProcessRequest_TimeToExecutor ==
    /\ pr_pc = "called"
    /\ CASE pr_request = "not_text" ->
              /\ pr_pc' = "returned"
              /\ pr_result' = [kind |-> "apology_outer", cls |-> "text", resp |-> NoResponse]
              /\ UNCHANGED <<execution_state, pc, events, fault, event_queue, enqueued>>
         [] pr_request = "date" ->
              /\ pr_pc' = "returned"
              /\ pr_result' = [kind |-> "date", cls |-> "text", resp |-> NoResponse]
              /\ UNCHANGED <<execution_state, pc, events, fault, event_queue, enqueued>>
         [] pr_request \in {"time", "plain"} ->
              /\ pr_pc' = "awaiting"
              /\ UNCHANGED pr_result
              /\ IF pr_executor = "primary"
                 THEN AInvokeBody(1)
                 ELSE UNCHANGED <<execution_state, pc, events, fault, event_queue, enqueued>>
    /\ UNCHANGED <<cfgVars, self_current_step, plan_steps, logVars, step_num, call, output,
                   calls, llm_calls, outcomes, restOfStream, pr_request, pr_executor>>

\* lines 1265-1299: the fast paths, or the call of the executor
ProcessRequest ==
    /\ pr_pc = "called"
    /\ CASE pr_request = "not_text" ->
              /\ pr_pc' = "returned"
              /\ pr_result' = [kind |-> "apology_outer", cls |-> "text", resp |-> NoResponse]
              /\ UNCHANGED <<execution_state, pc, events, fault, event_queue, enqueued>>
         [] pr_request = "date" ->
              /\ pr_pc' = "returned"
              /\ pr_result' = [kind |-> "date", cls |-> "text", resp |-> NoResponse]
              /\ UNCHANGED <<execution_state, pc, events, fault, event_queue, enqueued>>
         [] pr_request = "time" ->
              /\ pr_pc' = "returned"
              /\ pr_result' = [kind |-> "time", cls |-> "text", resp |-> NoResponse]
              /\ UNCHANGED <<execution_state, pc, events, fault, event_queue, enqueued>>
         [] pr_request = "plain" ->
              /\ pr_pc' = "awaiting"
              /\ UNCHANGED pr_result
              /\ IF pr_executor = "primary"
                 THEN AInvokeBody(1)
                 ELSE UNCHANGED <<execution_state, pc, events, fault, event_queue, enqueued>>
    /\ UNCHANGED <<cfgVars, self_current_step, plan_steps, logVars, step_num, call, output,
                   calls, llm_calls, outcomes, restOfStream, pr_request, pr_executor>>

\* lines 1299-1322 once the executor has answered
ProcessRequestReturn ==
    /\ pr_pc = "awaiting"
    /\ pr_pc' = "returned"
    /\ IF pr_executor = "primary"
       THEN /\ pc[1] = "done"
            /\ pr_result' = ProcessAnswer([shape |-> "dict_output",
                                           ans |-> OutputClass(output[1])])
       ELSE \E resp \in OtherResponses : pr_result' = ProcessAnswer(resp)
    /\ UNCHANGED <<cfgVars, instVars, runVars, streamVars, pr_request, pr_executor>>

InitAgent ==
    /\ active = {1}
    /\ sink = [r \in Runs |-> "none"]
    /\ max_steps \in 1..MaxStepsCap
    /\ user_input \in {f \in [Runs -> UNION {RequestTexts(r) : r \in Runs}] :
                         \A r \in Runs : f[r] \in RequestTexts(r)}
    /\ user_input[2].marker = NoUser
    /\ IdleRun /\ NoStream /\ RegistryAtStartup /\ NoRoutine
    /\ pr_pc = "called"
    /\ pr_request \in RequestKinds
    /\ pr_executor \in {"primary", "other"}
    /\ pr_result = [kind |-> "none", cls |-> "none", resp |-> NoResponse]

NextAgent ==
    \/ ProcessRequest
    \/ ProcessRequestReturn
    \/ RunStep(1)

SpecAgent == InitAgent /\ [][NextAgent]_vars

\* C7: Agent.process_request returns a string with visible content and
\* never raises: the executor's answer when it has visible content, the
\* cannot-answer message when the output is empty or whitespace only, the
\* apology when the executor raised.
C7_AlwaysAnswers ==
    pr_pc = "returned" =>
       /\ pr_result.cls = "text"
       /\ pr_result.kind \in {"answer", "cannot_answer", "apology", "apology_outer",
                              "date", "time"}
       /\ (pr_result.resp.shape = "raise" => pr_result.kind = "apology")
       /\ (pr_result.resp.shape \in {"dict_output", "bare"} =>
             /\ (pr_result.resp.ans \in {"empty", "blank"} => pr_result.kind = "cannot_answer")
             /\ (pr_result.resp.ans = "text" => pr_result.kind = "answer"))

\* the executor returned a whitespace-only output and the caller got the
\* cannot-answer message
C7_Witness ==
    /\ pr_pc = "returned"
    /\ pr_result.resp = [shape |-> "dict_output", ans |-> "blank"]
    /\ pr_result.kind = "cannot_answer" /\ pr_result.cls = "text"

\* ============================== two runs on one executor instance
InitShared ==
    /\ active = {1, 2}
    /\ sink = [r \in Runs |-> "none"]
    /\ max_steps \in 1..MaxStepsCap
    /\ user_input \in {f \in [Runs -> UNION {RequestTexts(r) : r \in Runs}] :
                         \A r \in Runs : f[r] \in RequestTexts(r)}
    /\ IdleRun /\ NoStream /\ NoAgent /\ RegistryAtStartup /\ NoRoutine

SpecShared == InitShared /\ [][Next]_vars

\* run r is between its planning response and its return
Executing(r) ==
    pc[r] \in {"execution_start", "loop", "step_llm", "recovery_llm", "tool_wait", "synthesis"}

\* C8: run state is private to a run: the user_id injected into a
\* search_video_by_vector call of run r is the identity of r's request,
\* and while r executes, the plan, the results and the current step of the
\* run state are those of r.
C8_RunStatePrivate ==
    /\ \A i \in 1..Len(calls) :
          (calls[i].name = "search_video_by_vector" /\ calls[i].user_id # "from_model")
          => calls[i].user_id = ExtractUserId(user_input[calls[i].run])
    /\ \A r \in active :
          Executing(r) =>
             /\ execution_state.plan = plan_steps[r]
             /\ execution_state.user_id = ExtractUserId(user_input[r])
             /\ (step_num[r] > 0 => self_current_step = step_num[r])


\* ================================== the fallback executor (lines 969-1209)
\* what the fallback makes of a step response: no registered tool name in
\* it ("direct"), a tool name without  name(  after it ("mention"), or the
\* first tool of tool_map found in it, with the parameters between  name(
\* and the next  )
FallbackActionChoices ==
    { [kind |-> "direct", name |-> "", params |-> {}] }
    \cup { [kind |-> "mention", name |-> n, params |-> {}] : n \in ToolNames }
    \cup { [kind |-> "call", name |-> n, params |-> p] : n \in ToolNames, p \in ParamChoices }

\* lines 1134-1137: the parameters and the user_id value the registry receives
FallbackInject(name, params, extracted_user_id) ==
    IF name = "search_video_by_vector" /\ "user_id" \notin params
       /\ extracted_user_id # NoUser
    THEN [params |-> params \cup {"user_id"}, user_id |-> extracted_user_id]
    ELSE [params |-> params,
          user_id |-> IF "user_id" \in params THEN "from_model" ELSE NoUser]

\* lines 1144-1149: tool_result, a str either way
FallbackResultOf(outcome) ==
    IF outcome = "success" THEN "text" ELSE "failure_note"

\* lines 1140-1143: the fallback awaits call_tool_async without wait_for, so
\* a callable that does not return in time is waited for without end
\* ("never") instead of being abandoned ("timeout")
FallbackOutcomes(name, params) ==
    {IF oc = "timeout" THEN "never" ELSE oc : oc \in RegistryOutcomes(name, params)}

\* the responses to the final prompt tried
FinalResponses ==
    { <<Line("Final Answer:", "4")>>,
      <<Line("", "4"), Line("Result:", "x")>>,
      <<Line("Step:", "1"), Line("Action:", "Direct[4]")>>,
      <<Line("Final Answer:", "")>>,
      <<>> }

\* lines 1207-1209: except Exception returns the apology, no event
FallbackFail(r, cause) ==
    /\ pc' = [pc EXCEPT ![r] = "done"]
    /\ fault' = [fault EXCEPT ![r] = cause]
    /\ output' = [output EXCEPT ![r] = "apology"]

FallbackGoto(r, where) ==
    /\ pc' = [pc EXCEPT ![r] = where]
    /\ UNCHANGED <<fault, output>>

\* the loop of line 1083 has no max_steps check
FallbackAfterStep(r) ==
    IF step_num[r] >= Len(plan_steps[r]) THEN "fb_summary" ELSE "fb_loop"

\* lines 982-1024
FallbackAInvoke(r) ==
    /\ r \in active /\ task = "none" /\ pr_pc = "none"
    /\ pc[r] = "idle" /\ ~LoopBlocked
    /\ \E so \in SinkOutcomes(r) :
         /\ Emit(r, Ev("planning_start", 0), so)
         /\ IF so = "raise" THEN FallbackFail(r, "sink") ELSE FallbackGoto(r, "fb_planning")
    /\ UNCHANGED <<cfgVars, instVars, plan_steps, logVars, step_num, call, calls, llm_calls,
                   outcomes, restOfStream, agentVars>>

\* lines 1028-1070
FallbackPlanning(r) ==
    /\ pc[r] = "fb_planning"
    /\ llm_calls' = [llm_calls EXCEPT ![r] = @ + 1]
    /\ \/ /\ FallbackFail(r, "llm")
          /\ UNCHANGED <<plan_steps, logVars, events, event_queue, enqueued>>
       \/ \E n \in 0..PlanCap :
            /\ plan_steps' = [plan_steps EXCEPT ![r] = PlanOf(r, n)]
            /\ \E so \in SinkOutcomes(r) :
                 /\ Emit(r, Ev("planning_complete", 0), so)
                 /\ IF so = "raise" THEN FallbackFail(r, "sink")
                    ELSE FallbackGoto(r, IF n = 0 THEN "fb_summary"
                                         ELSE "fb_execution_start")
    /\ UNCHANGED <<cfgVars, instVars, logVars, step_num, call, calls, outcomes,
                   restOfStream, agentVars>>

\* lines 1073-1079
FallbackExecutionStart(r) ==
    /\ pc[r] = "fb_execution_start"
    /\ \E so \in SinkOutcomes(r) :
         /\ Emit(r, Ev("execution_start", 0), so)
         /\ IF so = "raise" THEN FallbackFail(r, "sink") ELSE FallbackGoto(r, "fb_loop")
    /\ UNCHANGED <<cfgVars, instVars, plan_steps, logVars, step_num, call, calls, llm_calls,
                   outcomes, restOfStream, agentVars>>

\* lines 1083-1094
FallbackStepStart(r) ==
    /\ pc[r] = "fb_loop"
    /\ step_num' = [step_num EXCEPT ![r] = @ + 1]
    /\ \E so \in SinkOutcomes(r) :
         /\ Emit(r, Ev("step_start", step_num[r] + 1), so)
         /\ IF so = "raise" THEN FallbackFail(r, "sink")
            ELSE FallbackGoto(r, "fb_step_llm")
    /\ UNCHANGED <<cfgVars, instVars, plan_steps, logVars, call, calls, llm_calls, outcomes,
                   restOfStream, agentVars>>

\* lines 1109-1143 and 1165-1176
FallbackStepLLM(r) ==
    /\ pc[r] = "fb_step_llm"
    /\ llm_calls' = [llm_calls EXCEPT ![r] = @ + 1]
    /\ \/ /\ FallbackFail(r, "llm")
          /\ UNCHANGED <<execution_history, call, calls, events, event_queue, enqueued,
                         outcomes>>
       \/ \E a \in FallbackActionChoices :
            CASE a.kind = "direct" ->
                   /\ outcomes' = [outcomes EXCEPT ![r][step_num[r]] = "direct"]
                   /\ execution_history' = [execution_history EXCEPT
                          ![r] = Append(@, HistoryResult(step_num[r], "direct"))]
                   /\ \E so \in SinkOutcomes(r) :
                        /\ Emit(r, StepComplete(step_num[r], "direct"), so)
                        /\ IF so = "raise" THEN FallbackFail(r, "sink")
                           ELSE FallbackGoto(r, FallbackAfterStep(r))
                   /\ UNCHANGED <<call, calls>>
              [] a.kind = "mention" ->
                   /\ outcomes' = [outcomes EXCEPT ![r][step_num[r]] = "skipped"]
                   /\ FallbackGoto(r, FallbackAfterStep(r))
                   /\ UNCHANGED <<execution_history, call, calls, events, event_queue,
                                  enqueued>>
              [] a.kind = "call" ->
                   LET inj == FallbackInject(a.name, a.params,
                                             ExtractUserId(user_input[r]))
                       c == [run |-> r, step |-> step_num[r], name |-> a.name,
                             parsed |-> a.params, params |-> inj.params,
                             user_id |-> inj.user_id]
                   IN /\ call' = [call EXCEPT ![r] = c]
                      /\ calls' = Append(calls, c)
                      /\ FallbackGoto(r, "fb_tool_wait")
                      /\ UNCHANGED <<execution_history, events, event_queue, enqueued,
                                     outcomes>>
    /\ UNCHANGED <<cfgVars, instVars, plan_steps, summary_response, step_num, restOfStream,
                   agentVars>>

\* lines 1140-1164 after the await: a sink that raises on step_complete is
\* caught by the inner  except Exception  and the loop goes on
FallbackToolReturn(r) ==
    /\ pc[r] = "fb_tool_wait"
    /\ \E oc \in FallbackOutcomes(call[r].name, call[r].params) :
         /\ outcomes' = [outcomes EXCEPT ![r][step_num[r]] = oc]
         /\ IF oc \in {"blocks", "never"}
            THEN /\ FallbackGoto(r, IF oc = "blocks" THEN "blocked" ELSE "fb_waiting")
                 /\ UNCHANGED <<execution_history, events, event_queue, enqueued>>
            ELSE /\ execution_history' = [execution_history EXCEPT
                        ![r] = @ \o <<[tag |-> "Action", step |-> step_num[r],
                                       text |-> call[r].name \o "("
                                                \o ParamText(call[r].parsed) \o ")"],
                                      HistoryResult(step_num[r], FallbackResultOf(oc))>>]
                 /\ \E so \in SinkOutcomes(r) :
                      /\ Emit(r, StepComplete(step_num[r], FallbackResultOf(oc)), so)
                      /\ FallbackGoto(r, FallbackAfterStep(r))
    /\ UNCHANGED <<cfgVars, instVars, plan_steps, summary_response, step_num, call, calls,
                   llm_calls, restOfStream, agentVars>>

\* lines 1179-1206: the summary call; the answer is returned, no event
FallbackSummary(r) ==
    /\ pc[r] = "fb_summary"
    /\ llm_calls' = [llm_calls EXCEPT ![r] = @ + 1]
    /\ \/ FallbackFail(r, "llm") /\ UNCHANGED summary_response
       \/ \E final_response \in FinalResponses :
            /\ summary_response' = [summary_response EXCEPT ![r] = final_response]
            /\ pc' = [pc EXCEPT ![r] = "done"]
            /\ output' = [output EXCEPT ![r] = clean_final_answer(final_response)]
            /\ UNCHANGED fault
    /\ UNCHANGED <<cfgVars, instVars, plan_steps, execution_history, step_num, call,
                   events, calls, outcomes, streamVars, agentVars>>

FallbackStep(r) ==
    /\ ~LoopBlocked
    /\ \/ FallbackPlanning(r)
       \/ FallbackExecutionStart(r)
       \/ FallbackStepStart(r)
       \/ FallbackStepLLM(r)
       \/ FallbackToolReturn(r)
       \/ FallbackSummary(r)

\* one run on whichever executor _create_agent_executor returned
InitExecutors ==
    /\ active = {1}
    /\ sink \in [Runs -> {"none", "callback"}] /\ sink[2] = "none"
    /\ max_steps \in 1..MaxStepsCap
    /\ user_input \in {f \in [Runs -> UNION {RequestTexts(r) : r \in Runs}] :
                         \A r \in Runs : f[r] \in RequestTexts(r)}
    /\ user_input[2].marker = NoUser
    /\ IdleRun /\ NoStream /\ RegistryAtStartup /\ NoRoutine
    /\ pr_pc = "none" /\ pr_request = "none"
    /\ pr_executor \in {"primary", "fallback"}
    /\ pr_result = [kind |-> "none", cls |-> "none", resp |-> NoResponse]

NextExecutors ==
    \/ (pr_executor = "primary" /\ AInvoke(1))
    \/ (pr_executor = "primary" /\ RunStep(1))
    \/ (pr_executor = "fallback" /\ FallbackAInvoke(1))
    \/ (pr_executor = "fallback" /\ FallbackStep(1))

SpecExecutors == InitExecutors /\ [][NextExecutors]_vars

\* ====================================== properties, either executor
\* registry invocations made for step k of run r
CallsOf(r, k) ==
    Cardinality({i \in 1..Len(calls) : calls[i].run = r /\ calls[i].step = k})

\* C14: in a run of the primary or of the fallback executor every plan
\* step causes at most one registry invocation: exactly one when the step
\* ended with a registry outcome (success, failure, timeout), also after a
\* recovery re-prompt, and none when the step was answered directly, was
\* skipped, or has not started.
C14_AtMostOneCall ==
    \A k \in 1..MaxPlan :
       /\ CallsOf(1, k) <= 1
       /\ (outcomes[1][k] \in {"success", "failed", "timeout"} => CallsOf(1, k) = 1)
       /\ (outcomes[1][k] \in {"direct", "skipped", "no_call"} => CallsOf(1, k) = 0)
       /\ (k > step_num[1] => CallsOf(1, k) = 0)

\* a primary run whose step 1 timed out, whose step 2 called a tool after
\* the recovery re-prompt and whose step 3 was answered directly
C14_Witness ==
    /\ pr_executor = "primary" /\ pc[1] = "done"
    /\ outcomes[1][1] = "timeout" /\ outcomes[1][2] = "success"
    /\ outcomes[1][3] = "direct"
    /\ llm_calls[1] = 6 /\ Len(calls) = 2

\* C15: a step_complete event passed to the sink consists of its type and
\* the step number and of nothing else, so that it is the same event
\* whatever the tool returned or the direct answer said, in the primary and
\* in the fallback executor.
C15_OpaqueStepComplete ==
    \A i \in 1..Len(events[1]) :
       events[1][i].type = "step_complete" =>
          /\ DOMAIN events[1][i] = {"type", "step"}
          /\ events[1][i].step \in 1..step_num[1]

\* a fallback run passed step_complete for a step whose tool call failed
\* and for a step whose tool call succeeded
C15_Witness ==
    /\ pr_executor = "fallback" /\ sink[1] = "callback"
    /\ outcomes[1][1] = "failed" /\ outcomes[1][2] = "success"
    /\ HasEvent(events[1], "step_complete", 1)
    /\ HasEvent(events[1], "step_complete", 2)

\* the identity the marker pattern extracts from the request of a call
CallerOf(c) == ExtractUserId(user_input[c.run])

\* C16: the registry receives the parsed parameters plus a user_id set to
\* the caller identity exactly when the tool is search_video_by_vector, an
\* identity was extracted from the request and the parsed parameters hold
\* no user_id; in every other case it receives exactly the parsed
\* parameters, a user_id given in the action text included.
C16_IdentityInjection ==
    \A i \in 1..Len(calls) :
       LET c == calls[i] IN
       IF c.name = "search_video_by_vector" /\ CallerOf(c) # NoUser
          /\ "user_id" \notin c.parsed
       THEN c.params = c.parsed \cup {"user_id"} /\ c.user_id = CallerOf(c)
       ELSE /\ c.params = c.parsed
            /\ c.user_id = IF "user_id" \in c.parsed THEN "from_model" ELSE NoUser

\* a run with an identity in its request made a search call that got the
\* identity injected and a search call that kept the user_id of the action
\* text
C16_Witness ==
    /\ ExtractUserId(user_input[1]) = "u1"
    /\ \E i, j \in 1..Len(calls) :
         /\ calls[i].name = "search_video_by_vector"
         /\ calls[i].parsed = {"query"} /\ calls[i].params = {"query", "user_id"}
         /\ calls[i].user_id = "u1"
         /\ calls[j].name = "search_video_by_vector"
         /\ calls[j].parsed = {"query", "user_id"} /\ calls[j].user_id = "from_model"

\* C21: a run of the fallback executor never raises to its caller and
\* returns an output that is a non-empty string, whatever the generation
\* model answered (a final response of process lines only, or an empty one,
\* included), whatever the tools came to and whether or not the sink raised.
C21_FallbackOutput ==
    pr_executor = "fallback" =>
       /\ pc[1] # "raised"
       /\ (pc[1] = "done" => output[1] \notin {"", "pending"})

\* the terminal events among those the sink of run r accepted
TerminalEvents(r) == {i \in 1..Len(events[r]) : IsTerminal(events[r][i])}

\* C22: a fallback run passes to its sink what a primary run passes:
\* planning_start, planning_complete, execution_start, step_start k and
\* step_complete k for each executed step, and last of all exactly one
\* terminal event, complete when the run succeeded and error when it failed.
C22_FallbackEvents ==
    (pr_executor = "fallback" /\ sink[1] = "callback" /\ pc[1] = "done") =>
       /\ Cardinality(TerminalEvents(1)) = 1
       /\ TerminalEvents(1) = {Len(events[1])}
       /\ (fault[1] = "none" =>
             /\ events[1][Len(events[1])].type = "complete"
             /\ (\A k \in 1..step_num[1] : outcomes[1][k] # "skipped")
                   => events[1] = ExpectedEvents(step_num[1]))
       /\ (fault[1] # "none" => events[1][Len(events[1])].type = "error")

\* registry outcomes in which the tool has not returned when the timeout is over
Overdue == {"timeout", "never", "blocks"}

\* C28: on either executor, a run whose tool does not return within the
\* tool timeout stops waiting for it: it is never left waiting on the call.
C28_ToolWaitBounded ==
    \A k \in 1..MaxPlan :
       outcomes[1][k] \in Overdue => pc[1] \notin {"fb_waiting", "blocked"}

\* ============================================ the registry on its own
\* register_tool(name, func, description, parameters)
RegisterTool ==
    \E n \in RegNames, f \in Callables, ps \in ParameterLists :
       LET out == register_tool(tools, n, f, ps) IN
       /\ tools' = out.tools
       /\ last_register' = [name |-> n, function |-> f, parameters |-> ps,
                            error |-> out.error]
       /\ tool_response' = NoToolResponse
       /\ last_call' = NoCall
       /\ UNCHANGED <<active, sink, max_steps, user_input, funVars, instVars, runVars,
                      streamVars, agentVars>>

\* call_tool(tool_name, parameters) / await call_tool_async(tool_name, parameters)
CallTool ==
    \E path \in {"sync", "async"}, n \in RegNames \cup {"t0"}, ps \in ParameterMaps :
       LET out == call_tool(path, tools, n, ps) IN
       /\ tool_response' = out.response
       /\ last_call' = [path |-> path, name |-> n, parameters |-> ps,
                        raised |-> out.raised, called |-> out.called]
       /\ last_register' = NoRegister
       /\ UNCHANGED <<tools, active, sink, max_steps, user_input, funVars, instVars, runVars,
                      streamVars, agentVars>>

\* a fresh MCPServer(): no tool registered, no run
InitRegistry ==
    /\ active = {}
    /\ sink = [r \in Runs |-> "none"]
    /\ max_steps = MaxStepsCap
    /\ user_input = [r \in Runs |-> [owner |-> r, marker |-> NoUser]]
    /\ IdleRun /\ NoStream /\ NoAgent /\ NoRoutine
    /\ tools = <<>>
    /\ tool_response = NoToolResponse
    /\ last_call = NoCall
    /\ last_register = NoRegister

NextRegistry == RegisterTool \/ CallTool

SpecRegistry == InitRegistry /\ [][NextRegistry]_vars

\* ------------------------------------------- properties, registry
\* the last call went to a registered tool
CalledRegistered == last_call.path # "none" /\ Registered(tools, last_call.name)

\* required parameters of the called tool that the parameter map lacks
AbsentRequired ==
    LET ps == get_tool(tools, last_call.name).definition.parameters IN
    {ps[i].name : i \in {j \in 1..Len(ps) :
                           ps[j].required /\ ps[j].name \notin last_call.parameters}}

\* the callable of the called tool returns normally for the parameter map
ReturnsNormally ==
    LET f == get_tool(tools, last_call.name).function IN
    /\ last_call.parameters \subseteq Accepts(f)
    /\ (f.behaviour = "returns" \/ (last_call.path = "sync" /\ f.coroutine))

\* C17: a call to a registered tool comes back with success=false, an
\* error naming a required parameter the map lacks, and the callable not
\* called, exactly when the map lacks some required parameter; with all
\* required parameters present (optional ones or not) the callable is
\* called exactly once and a normal return gives success=true.
C17_RequiredGate ==
    CalledRegistered =>
       /\ (AbsentRequired # {} <=>
             /\ ~last_call.raised /\ ~tool_response.success
             /\ last_call.called = 0
             /\ tool_response.error \in
                  {"Required parameter " \o q \o " missing" : q \in AbsentRequired})
       /\ (AbsentRequired = {} =>
             /\ last_call.called = 1
             /\ (ReturnsNormally => ~last_call.raised /\ tool_response.success))

\* a tool with a required and an optional parameter was called with the
\* required one only and succeeded
C17_Witness ==
    /\ CalledRegistered /\ last_call.path = "async"
    /\ get_tool(tools, last_call.name).definition.parameters =
          <<ToolParameter("p1", "string", TRUE), ToolParameter("p2", "number", FALSE)>>
    /\ last_call.parameters = {"p1"}
    /\ last_call.called = 1 /\ tool_response.success

\* C18: no call raises to the caller, and its response has one of two
\* shapes: success=false with a non-empty error and no result (unknown
\* tool, validation failure, callable that throws), or success=true with
\* the returned value as result and no error.
C18_ResponseShape ==
    last_call.path # "none" =>
       /\ ~last_call.raised
       /\ \/ /\ ~tool_response.success
             /\ tool_response.result = PyNone
             /\ tool_response.error \notin {PyNone, ""}
          \/ /\ tool_response.success
             /\ tool_response.error = PyNone
             /\ CalledRegistered /\ ReturnsNormally
       /\ (CalledRegistered /\ AbsentRequired = {} /\ ReturnsNormally
             => tool_response.success)

EntriesOf(d, n) == {i \in 1..Len(d) : d[i].name = n}

C19_OnePerName ==
    /\ \A n \in RegNames : Cardinality(EntriesOf(tools, n)) <= 1
    /\ Len(get_available_tools(tools)) = Cardinality({n \in RegNames : Registered(tools, n)})

C19_Step ==
    /\ (last_register' = NoRegister => tools' = tools)
    /\ (last_register' # NoRegister /\ last_register'.error = PyNone =>
          LET n == last_register'.name IN
          /\ Cardinality(EntriesOf(tools', n)) = 1
          /\ get_tool(tools', n).function = last_register'.function
          /\ get_tool(tools', n).definition = ToolDefinition(n, last_register'.parameters)
          /\ \A m \in RegNames \ {n} :
                /\ Registered(tools', m) = Registered(tools, m)
                /\ (Registered(tools, m) => get_tool(tools', m) = get_tool(tools, m)))

\* C19: whatever was registered, the catalog lists one definition per
\* registered name; a successful register leaves that name with the
\* callable and the definition just given and every other name as it was,
\* and nothing but register changes the catalog, so each name carries what
\* its most recent successful register gave.
C19_LatestWins == []C19_OnePerName /\ [][C19_Step]_vars

\* a name registered before another one was registered again: it is still
\* listed once, first, with the callable given last
C19_Witness ==
    /\ Len(tools) = 2
    /\ last_register.name = tools[1].name /\ last_register.error = PyNone
    /\ tools[1].function = last_register.function
    /\ tools[1].function.id = "f_raises" /\ tools[2].function.id = "f_sync"
    /\ tools[1].definition.parameters = <<>>

InvalidTypes(parameters) ==
    {parameters[i].type : i \in {j \in 1..Len(parameters) :
                                   parameters[j].type \notin ValidTypes}}

C20_State ==
    last_register # NoRegister =>
       /\ (InvalidTypes(last_register.parameters) # {} <=> last_register.error # PyNone)
       /\ (last_register.error # PyNone =>
             last_register.error \in
                {"Invalid parameter type " \o t : t \in InvalidTypes(last_register.parameters)})

C20_Step ==
    (last_register' # NoRegister /\ last_register'.error # PyNone) => tools' = tools

\* C20: register raises the invalid-parameter-type error exactly when some
\* parameter's type is outside string, number, boolean, array, object,
\* file, and a register that raised leaves the catalog as it was: nothing
\* added, nothing replaced, nothing removed.
C20_RejectsInvalidType == []C20_State /\ [][C20_Step]_vars

\* a register with a bad type for a name already registered failed and the
\* earlier definition is still there
C20_Witness ==
    /\ last_register # NoRegister /\ last_register.error = "Invalid parameter type str"
    /\ Registered(tools, last_register.name)
    /\ get_tool(tools, last_register.name).definition.parameters =
          <<ToolParameter("p1", "file", FALSE), ToolParameter("p2", "object", TRUE)>>
    /\ Len(tools) = 2


\* =========================== AgentService.process_request (lines 1381-1490)
MaxTokens == 5    \* longest text tried, in tokens

\* a text is a sequence of tokens: a word, the two tags, the brackets of a
\* JSON list, a JSON object written on one line, a JSON object with a line
\* break inside a string, and a JSON list nested deeper than the parser's
\* recursion limit
OpenTag == "<video_info>"
CloseTag == "</video_info>"
ServiceTokens == {"w", OpenTag, CloseTag, "[", "]", "item", "split_item", "deep"}

TextsOver(tokens, n) == UNION {[1..k -> tokens] : k \in 0..n}

\* the least element of a non-empty set of numbers, 0 for the empty set
Least(S) == IF S = {} THEN 0 ELSE CHOOSE i \in S : \A j \in S : i <= j
Greatest(S) == IF S = {} THEN 0 ELSE CHOOSE i \in S : \A j \in S : i >= j

Slice(seq, from, to) == IF from > to THEN <<>> ELSE SubSeq(seq, from, to)

\* re.search(r'<video_info>(.*?)</video_info>', text, re.DOTALL): the
\* positions of the two tags of the leftmost match, <<0, 0>> for no match
SearchBlock(text) ==
    LET open == Least({i \in 1..Len(text) : text[i] = OpenTag})
        close == Least({j \in 1..Len(text) : j > open /\ text[j] = CloseTag})
    IN IF open = 0 \/ close = 0 THEN <<0, 0>> ELSE <<open, close>>

\* re.sub(r'<video_info>.*?</video_info>', '', text, flags=re.DOTALL)
RECURSIVE RemoveBlocks(_)
RemoveBlocks(text) ==
    LET m == SearchBlock(text) IN
    IF m = <<0, 0>> THEN text
    ELSE Slice(text, 1, m[1] - 1) \o RemoveBlocks(Slice(text, m[2] + 1, Len(text)))

\* open brackets minus closing brackets among the first k tokens
RECURSIVE Depth(_, _)
Depth(text, k) ==
    IF k = 0 THEN 0
    ELSE Depth(text, k - 1) + (IF text[k] = "[" THEN 1 ELSE IF text[k] = "]" THEN -1 ELSE 0)

\* json.loads(text): the scanner stops at the first token that cannot go on
\* a JSON value (JSONDecodeError), and at a value nested too deep when it
\* comes to it first (RecursionError)
json_loads(text) ==
    LET bad == Least({k \in 1..Len(text) :
                        \/ text[k] \in {"w", OpenTag, CloseTag, "split_item"}
                        \/ Depth(text, k) < 0
                        \/ k > 1 /\ Depth(text, k - 1) = 0})
        stop == IF bad # 0 THEN bad ELSE Len(text) + 1
        deep == Least({k \in 1..Len(text) : text[k] = "deep"})
    IN IF deep # 0 /\ deep < stop THEN [error |-> "RecursionError", value |-> <<>>]
       ELSE IF bad # 0 \/ text = <<>> \/ Depth(text, Len(text)) # 0
            THEN [error |-> "JSONDecodeError", value |-> <<>>]
       ELSE [error |-> "none", value |-> text]

\* if not isinstance(video_info_list, list): video_info_list = [video_info_list]
AsList(value) == IF value[1] = "[" THEN value ELSE <<"[">> \o value \o <<"]">>

\* ''.join(line.strip() for line in content.split('\n')): a string broken
\* over two lines becomes one
JoinStripped(content) ==
    [i \in 1..Len(content) |-> IF content[i] = "split_item" THEN "item" ELSE content[i]]

\* lines 1454-1459: from the first '[' to the last ']' when both are there
BracketPart(content) ==
    LET json_start == Least({i \in 1..Len(content) : content[i] \in {"[", "deep"}})
        json_end == Greatest({i \in 1..Len(content) : content[i] \in {"]", "deep"}})
    IN IF json_start # 0 /\ json_end # 0 THEN Slice(content, json_start, json_end)
       ELSE content

\* lines 1447-1452: a block inside the joined content replaces it
InnerBlock(content) ==
    LET m == SearchBlock(content) IN
    IF m = <<0, 0>> THEN content ELSE Slice(content, m[1] + 1, m[2] - 1)

\* PlaceholderList of a fallback that hands back no item
PlaceholderList_Empty == <<"[", "]">>

\* the hard-coded list of lines 1471-1479
PlaceholderList == <<"[", "placeholder", "]">>
EmptyList == <<"[", "]">>

\* the branch of lines 1420-1485 that builds the answer
ParsePath(result) ==
    LET m == SearchBlock(result)
        raw_content == Slice(result, m[1] + 1, m[2] - 1)
        first == json_loads(raw_content)
        second == json_loads(BracketPart(InnerBlock(JoinStripped(raw_content))))
    IN IF m = <<0, 0>> THEN "no_block"
       ELSE IF first.error = "none" THEN "direct"
       ELSE IF first.error # "JSONDecodeError" THEN "other_error"
       ELSE IF second.error = "none" THEN "cleaned"
       ELSE "placeholder"

\* lines 1415-1490: from the agent's answer to {"text", "video_info"}
service_process_request(result) ==
    LET m == SearchBlock(result)
        raw_content == Slice(result, m[1] + 1, m[2] - 1)
        clean_content == BracketPart(InnerBlock(JoinStripped(raw_content)))
        path == ParsePath(result)
    IN CASE path = "no_block" -> [text |-> result, video_info |-> EmptyList]
         [] path = "direct" ->
              [text |-> RemoveBlocks(result),
               video_info |-> AsList(json_loads(raw_content).value)]
         [] path = "cleaned" ->
              [text |-> RemoveBlocks(result),
               video_info |-> AsList(json_loads(clean_content).value)]
         [] path = "placeholder" ->
              [text |-> RemoveBlocks(result), video_info |-> PlaceholderList]
         [] path = "other_error" -> [text |-> result, video_info |-> EmptyList]

\* no run, no stream, no request: a routine is called on its own
RoutineAlone ==
    /\ active = {}
    /\ sink = [r \in Runs |-> "none"]
    /\ max_steps = MaxStepsCap
    /\ user_input = [r \in Runs |-> [owner |-> r, marker |-> NoUser]]
    /\ IdleRun /\ NoStream /\ NoAgent /\ RegistryAtStartup
    /\ applied = "none" /\ returned = <<>>

Apply(name, value) ==
    /\ applied = "none"
    /\ applied' = name
    /\ returned' = value
    /\ UNCHANGED <<argument, active, sink, max_steps, user_input, regVars, instVars,
                   runVars, streamVars, agentVars>>

ServiceProcessRequest == Apply("AgentService.process_request", service_process_request(argument))

InitService == RoutineAlone /\ argument \in TextsOver(ServiceTokens, MaxTokens)

NextService == ServiceProcessRequest

SpecService == InitService /\ [][NextService]_vars

\* --------------------------------------------- properties, service
HasBlock(text) == SearchBlock(text) # <<0, 0>>

\* the content of the first block of the argument
BlockContent == Slice(argument, SearchBlock(argument)[1] + 1, SearchBlock(argument)[2] - 1)

\* the content is no JSON as it stands, nor after its lines are joined and
\* the part from the first '[' to the last ']' is taken
NotJson ==
    /\ json_loads(BlockContent).error = "JSONDecodeError"
    /\ json_loads(BracketPart(JoinStripped(BlockContent))).error = "JSONDecodeError"

DescriptionOf(n) == "about " \o n

\* lines 83-85:  param.get('name', ...)  on a ToolParameter, a pydantic
\* model without a method get: AttributeError for the first parameter
ParamNames(parameters) ==
    IF parameters = <<>> THEN [raised |-> FALSE, names |-> <<>>]
    ELSE [raised |-> TRUE, names |-> <<>>]

\* lines 76-96: the entry of one tool; a tool whose entry raised is left out
CatalogEntries(definitions) ==
    LET kept == SelectSeq(definitions, LAMBDA d : ~ParamNames(d.parameters).raised)
    IN [i \in 1..Len(kept) |->
          [name |-> kept[i].name, description |-> DescriptionOf(kept[i].name),
           parameters |-> ParamNames(kept[i].parameters).names]]

\* get_available_tools_info(): the entries joined into tools_info, or one
\* of the fixed texts of lines 72 and 100
get_available_tools_info(d) ==
    LET mcp_tools == get_available_tools(d) IN
    IF mcp_tools = <<>> THEN [text |-> "no tools available", entries |-> <<>>]
    ELSE IF CatalogEntries(mcp_tools) = <<>>
         THEN [text |-> "no tool details available", entries |-> <<>>]
    ELSE [text |-> "entries", entries |-> CatalogEntries(mcp_tools)]

\* Agent._generate_system_prompt, lines 336-343: the catalog goes into the
\* prompt as it is
GenerateSystemPrompt ==
    /\ applied = "none"
    /\ applied' = "get_available_tools_info"
    /\ argument' = get_available_tools(tools)
    /\ returned' = get_available_tools_info(tools)
    /\ UNCHANGED <<active, sink, max_steps, user_input, regVars, instVars, runVars,
                   streamVars, agentVars>>

\* tool_registry.py registers its tools at import, before an Agent is built
RegisterAtImport == applied = "none" /\ RegisterTool

NextCatalog == RegisterAtImport \/ GenerateSystemPrompt

SpecCatalog == InitRegistry /\ [][NextCatalog]_vars

\* the names of the parameters of a definition, in order
NamesOf(parameters) == [i \in 1..Len(parameters) |-> parameters[i].name]

\* C32: the catalog in the prompt has one entry for each tool registered
\* when the prompt is built, in registration order, with the tool's name,
\* its description and the names of all its parameters.
C32_CatalogComplete ==
    applied = "get_available_tools_info" =>
       /\ Len(returned.entries) = Len(argument)
       /\ \A i \in 1..Len(argument) :
             /\ returned.entries[i].name = argument[i].name
             /\ returned.entries[i].description = DescriptionOf(argument[i].name)
             /\ returned.entries[i].parameters = NamesOf(argument[i].parameters)


\* ============================== AgentConfig (agent_service.py:28-37)
\* temperatures are counted in tenths: 3 is the default 0.3
Temperatures == {0, 3, 11}
ConfigSteps == 0..MaxStepsCap

\* AgentConfig(max_steps=..., temperature=...): the two fields are declared
\* with Field(default=..., description=...) and the class has no validator,
\* so every int and every float is accepted
AgentConfig(fields) == [error |-> "none", config |-> fields]

\* POST /config/test, agent_routes.py:254-283: the only place that compares
\* the two fields with their ranges; it answers and keeps nothing
test_agent_config(config) ==
    IF config.max_steps <= 0 THEN [status |-> 400, detail |-> "max_steps"]
    ELSE IF ~(0 <= config.temperature /\ config.temperature <= 10)
         THEN [status |-> 400, detail |-> "temperature"]
    ELSE [status |-> 200, detail |-> "valid"]

TestAgentConfig ==
    /\ applied = "AgentConfig"
    /\ applied' = "test_agent_config"
    /\ returned' = [error |-> returned.error, config |-> returned.config,
                    test |-> test_agent_config(returned.config)]
    /\ UNCHANGED <<argument, active, sink, max_steps, user_input, regVars, instVars,
                   runVars, streamVars, agentVars>>

\* the state after AgentConfig(**fields) and Agent(config), lines 318-334:
\* the executor holds the configuration that was constructed
InitConfig ==
    /\ active = {1}
    /\ sink = [r \in Runs |-> "none"]
    /\ argument \in [max_steps : ConfigSteps, temperature : Temperatures]
    /\ applied = "AgentConfig"
    /\ returned = AgentConfig(argument)
    /\ returned.error = "none"
    /\ max_steps = returned.config.max_steps
    /\ user_input \in {f \in [Runs -> UNION {RequestTexts(r) : r \in Runs}] :
                         \A r \in Runs : f[r] \in RequestTexts(r)}
    /\ user_input[2].marker = NoUser
    /\ IdleRun /\ NoStream /\ NoAgent /\ RegistryAtStartup

NextConfig == Next \/ TestAgentConfig

SpecConfig == InitConfig /\ [][NextConfig]_vars

\* C33: a run only ever executes with a configuration whose max_steps is
\* positive and whose temperature lies in [0, 1], and with the
\* configuration that was constructed.
C33_ConfigValidated ==
    \A r \in active :
       pc[r] # "idle" =>
          /\ max_steps = argument.max_steps
          /\ max_steps > 0
          /\ 0 <= returned.config.temperature /\ returned.config.temperature <= 10

\* the part of C33 that holds: a run leaves the configuration as it was
C33_ConfigUnchanged == [][max_steps' = max_steps /\ returned'.config = returned.config]_vars


\* ============ the final-answer routines on texts (lines 693-762, 1211-1249)
\* A text is a sequence of tokens: a word, a line break, one of the seven
\* markers, and the two halves of the old Finish[...] form.
MaxAnswerTokens == 4
Newline == "\n"
AnswerMarkers == {"Plan:", "Reasoning:", "Step:", "Action:", "Result:",
                  "Execution Complete:", "Final Answer:"}
AnswerTokens == {"w", Newline, "Finish[", "]"} \cup AnswerMarkers

\* str.strip()
StripText(text) ==
    LET solid == {i \in 1..Len(text) : text[i] # Newline}
    IN IF solid = {} THEN <<>> ELSE SubSeq(text, Least(solid), Greatest(solid))

\* the number of line breaks in a row from position i on: what \s* takes
NewlineRun(text, i) ==
    LET stops == {j \in i..Len(text) : text[j] # Newline}
    IN IF stops = {} THEN Len(text) - i + 1 ELSE Least(stops) - i

\* the positions from q on where an empty line begins (\n\n)
EmptyLinesFrom(text, q) ==
    {e \in q..(Len(text) - 1) : text[e] = Newline /\ text[e + 1] = Newline}

\* the end of the line that .* reaches after \s* has started at position j
RestOfLine(text, j) ==
    LET k == j + NewlineRun(text, j)
        breaks == {e \in k..Len(text) : text[e] = Newline}
    IN IF breaks = {} THEN Len(text) ELSE Least(breaks) - 1

AtLineStart(text, i) == i = 1 \/ text[i - 1] = Newline

\* the last position of the match of a pattern that begins at position i,
\* 0 when the pattern does not match there; m is the marker in the pattern
\*   block       m\s*\n(.*?)\n\n     DOTALL
\*   section     m.*?(?=\n\n|\Z)      DOTALL
\*   line        ^m\s*.*$             MULTILINE
\*   nl_line     \nm\s*.*$            MULTILINE
\*   to_newline  m.*?\n
\*   head        ^m\s*
\*   nl_marker   \nm\s*
\*   blank_lines \n\s*\n\s*\n
MatchEnd(kind, m, text, i) ==
    CASE kind = "block" ->
           IF text[i] # m THEN 0
           ELSE LET n == NewlineRun(text, i + 1)
                    later == EmptyLinesFrom(text, i + n + 1)
                IN IF n >= 1 /\ later # {} THEN Least(later) + 1
                   ELSE IF n >= 3 THEN i + n
                   ELSE 0
      [] kind = "section" ->
           IF text[i] # m THEN 0
           ELSE LET ahead == EmptyLinesFrom(text, i + 1)
                IN IF ahead = {} THEN Len(text) ELSE Least(ahead) - 1
      [] kind = "line" ->
           IF text[i] = m /\ AtLineStart(text, i) THEN RestOfLine(text, i + 1) ELSE 0
      [] kind = "nl_line" ->
           IF text[i] = Newline /\ i < Len(text) /\ text[i + 1] = m
           THEN RestOfLine(text, i + 2) ELSE 0
      [] kind = "to_newline" ->
           IF text[i] # m THEN 0
           ELSE Least({e \in (i + 1)..Len(text) : text[e] = Newline})
      [] kind = "head" ->
           IF i = 1 /\ text[i] = m THEN i + NewlineRun(text, i + 1) ELSE 0
      [] kind = "nl_marker" ->
           IF text[i] = Newline /\ i < Len(text) /\ text[i + 1] = m
           THEN i + 1 + NewlineRun(text, i + 2) ELSE 0
      [] kind = "blank_lines" ->
           IF text[i] = Newline /\ NewlineRun(text, i) >= 3
           THEN i + NewlineRun(text, i) - 1 ELSE 0

\* re.sub(pattern, repl, text): the matches from left to right, none
\* overlapping another
RECURSIVE SubFrom(_, _, _, _, _)
SubFrom(kind, m, repl, text, i) ==
    IF i > Len(text) THEN <<>>
    ELSE LET e == MatchEnd(kind, m, text, i)
         IN IF e = 0 THEN <<text[i]>> \o SubFrom(kind, m, repl, text, i + 1)
            ELSE repl \o SubFrom(kind, m, repl, text, e + 1)

re_sub(kind, m, repl, text) == SubFrom(kind, m, repl, text, 1)

\* lines 721-726 / 1217-1222: a Plan: or Reasoning: paragraph
RemoveParagraph(m, text) == re_sub("section", m, <<>>, re_sub("block", m, <<>>, text))

\* lines 730-739 / 1225-1235: the lines that begin with Step:, Action:, Result:
RemoveLines(m, text) == re_sub("nl_line", m, <<>>, re_sub("line", m, <<>>, text))

\* lines 741-747 / 1237-1243: the two markers themselves
RemoveCompletion(text) ==
    re_sub("line", "Execution Complete:", <<>>,
           re_sub("to_newline", "Execution Complete:", <<>>, text))

RemoveFinalAnswerMarker(text) ==
    re_sub("nl_marker", "Final Answer:", <<Newline>>,
           re_sub("head", "Final Answer:", <<>>, text))

\* step 2 of _extract_final_answer and the body of _clean_final_answer up
\* to the Final Answer: removal, in the order of the code
FilterMarkers(text) ==
    RemoveFinalAnswerMarker(
      RemoveCompletion(
        RemoveLines("Result:",
          RemoveLines("Action:",
            RemoveLines("Step:",
              RemoveParagraph("Reasoning:",
                RemoveParagraph("Plan:", text)))))))

FirstOf(text, token) == Least({i \in 1..Len(text) : text[i] = token})
LastOf(text, token) == Greatest({i \in 1..Len(text) : text[i] = token})

\* step 1, lines 700-717
AnswerPart(response) ==
    IF FirstOf(response, "Final Answer:") # 0
    THEN StripText(Slice(response, FirstOf(response, "Final Answer:") + 1, Len(response)))
    ELSE IF FirstOf(response, "Execution Complete:") # 0
    THEN StripText(Slice(response, FirstOf(response, "Execution Complete:") + 1, Len(response)))
    ELSE IF FirstOf(response, "Finish[") # 0 /\ LastOf(response, "]") > FirstOf(response, "Finish[") + 1
    THEN StripText(Slice(response, FirstOf(response, "Finish[") + 1, LastOf(response, "]") - 1))
    ELSE response

\* _extract_final_answer on a text, lines 693-757
ExtractFinalAnswerText(response) ==
    LET final_answer == StripText(FilterMarkers(AnswerPart(response)))
    IN IF final_answer = <<>> THEN <<DefaultAnswer>> ELSE final_answer

\* _clean_final_answer on a text, lines 1211-1249
CleanFinalAnswerText(response) ==
    StripText(re_sub("blank_lines", "", <<Newline, Newline>>, FilterMarkers(response)))

ExtractFinalAnswer ==
    Apply("_extract_final_answer", ExtractFinalAnswerText(argument))

CleanFinalAnswer ==
    Apply("_clean_final_answer", CleanFinalAnswerText(argument))

InitAnswer == RoutineAlone /\ argument \in TextsOver(AnswerTokens, MaxAnswerTokens)

NextAnswer == ExtractFinalAnswer \/ CleanFinalAnswer

SpecAnswer == InitAnswer /\ [][NextAnswer]_vars


\* no line of the text begins with one of the seven markers
NoMarkerLine(text) ==
    \A i \in 1..Len(text) : AtLineStart(text, i) => text[i] \notin AnswerMarkers

\* part can be had from whole by leaving tokens out
RECURSIVE IsSubsequence(_, _)
IsSubsequence(part, whole) ==
    IF part = <<>> THEN TRUE
    ELSE IF whole = <<>> THEN FALSE
    ELSE IF Head(part) = Head(whole) THEN IsSubsequence(Tail(part), Tail(whole))
    ELSE IsSubsequence(part, Tail(whole))

AfterFirstMarker(text) == Slice(text, FirstOf(text, "Final Answer:") + 1, Len(text))

\* "Plan:\n1. a\n\nReasoning: b\n\nFinal Answer: The result is 7"
DocumentedResponse ==
    <<"Plan:", Newline, "w", Newline, Newline, "Reasoning:", "w", Newline, Newline,
      "Final Answer:", "w">>

\* the answer is not empty: the default stands in when nothing is left
C34_NonEmpty == applied = "_extract_final_answer" => returned # <<>>

\* with a Final Answer: marker the answer is made of text after the first one
C34_AfterMarker ==
    /\ ExtractFinalAnswerText(DocumentedResponse) = <<"w">>
    /\ applied = "_extract_final_answer" /\ FirstOf(argument, "Final Answer:") # 0 =>
          \/ returned = <<DefaultAnswer>>
          \/ IsSubsequence(returned, AfterFirstMarker(argument))

\* C34: for every text the answer extracted is non-empty, has no line that
\* begins with Plan:, Reasoning:, Step:, Action:, Result:,
\* Execution Complete: or Final Answer:, and, when the text has a
\* Final Answer: marker, is taken from the text after it.
C34_ExtractFinalAnswer ==
    /\ C34_NonEmpty
    /\ C34_AfterMarker
    /\ applied = "_extract_final_answer" => NoMarkerLine(returned)


\* C35: for every response text the primary's _extract_final_answer and the
\* fallback's _clean_final_answer give the same answer.
C35_SameCleaning ==
    applied # "none" =>
       /\ returned \in {ExtractFinalAnswerText(argument), CleanFinalAnswerText(argument)}
       /\ ExtractFinalAnswerText(argument) = CleanFinalAnswerText(argument)

\* where the two do agree: a text without Final Answer:, Execution Complete:
\* and Finish[ of which something is left and that has no two empty lines
\* in a row
C35_AgreeOnPlainText ==
    ( /\ applied # "none"
      /\ \A i \in 1..Len(argument) :
            argument[i] \notin {"Final Answer:", "Execution Complete:", "Finish["}
      /\ CleanFinalAnswerText(argument) # <<>>
      /\ \A j \in 1..Len(FilterMarkers(argument)) :
            NewlineRun(FilterMarkers(argument), j) < 3 )
    => ExtractFinalAnswerText(argument) = CleanFinalAnswerText(argument)


\* ===================== _parse_plan_with_reasoning (lines 764-803)
\* A planning response is a sequence of lines.  A line is the marker it
\* starts with ("" for none), its ordinal k when it starts with "k." (0 for
\* none) and the rest of the line, a sequence of pieces of text.
MaxOrdinal == 6       \* most ordinal lines in a plan section
MaxLines == 3         \* longest response made of arbitrary lines

PlanLine(marker, ordinal, body) == [marker |-> marker, ordinal |-> ordinal, body |-> body]

\* a hyphen inside a word and the hyphen of the ' - tool' annotation
Annotation == " - "
Hyphens == {"-", Annotation}

\* what follows the ordinal: 'find X - toolA', 'summarize',
\* 're-check - toolB'
BodyForms ==
    { <<"find X", Annotation, "toolA">>,
      <<"summarize">>,
      <<"re", "-", "check", Annotation, "toolB">> }

PlanMarker == PlanLine("Plan:", 0, <<>>)
ReasoningLine == PlanLine("Reasoning:", 0, <<"because Y">>)
StepLine == PlanLine("Step:", 0, <<"1">>)
TextLine == PlanLine("", 0, <<"and Z">>)

\* the ordinal lines 1. to k. with the bodies b[1] .. b[k]
OrdinalLines(k, b) == [i \in 1..k |-> PlanLine("", i, b[i])]

\* what may follow the plan section
Tails ==
    { <<>>,
      <<ReasoningLine>>,
      <<ReasoningLine, TextLine, StepLine>>,
      <<ReasoningLine, PlanLine("", 1, <<"summarize">>)>> }

\* the lines of a response made of arbitrary lines
LineForms ==
    { PlanMarker, ReasoningLine, StepLine, TextLine, PlanLine("Execution:", 0, <<>>) }
    \cup { PlanLine("", i, <<"find X", Annotation, "toolA">>) : i \in {1, 2} }

PlanningResponses ==
    { head \o OrdinalLines(n, b) \o tail :
        head \in {<<>>, <<PlanMarker>>}, tail \in Tails,
        n \in {0}, b \in {<<>>} }
    \cup UNION { { head \o OrdinalLines(n, b) \o tail :
                     head \in {<<>>, <<PlanMarker>>}, tail \in Tails,
                     b \in [1..n -> BodyForms] } : n \in 1..MaxOrdinal }
    \cup TextsOver(LineForms, MaxLines)

FirstLine(response, markers) ==
    Least({i \in 1..Len(response) : response[i].marker \in markers})

\* line.startswith("1.") or ... or line.startswith("5."), lines 787-788
StartsWithOrdinal(line) == line.marker = "" /\ line.ordinal \in 1..5

\* lines 791-796: the description is cut at the first hyphen unless the
\* text starts with one
StepDesc(step_parts) ==
    LET hyphens == {i \in 1..Len(step_parts) : step_parts[i] \in Hyphens}
    IN IF hyphens # {} /\ Least(hyphens) # 1
       THEN SubSeq(step_parts, 1, Least(hyphens) - 1)
       ELSE step_parts

\* lines 781-799: every line from the first Plan: to the end of the
\* response that starts with 1. to 5. gives a step, unless nothing is left
PlanSteps(response) ==
    LET start == FirstLine(response, {"Plan:"})
        plan_section == Slice(response, start, Len(response))
        lines == SelectSeq(plan_section,
                           LAMBDA line : StartsWithOrdinal(line) /\ StepDesc(line.body) # <<>>)
    IN IF start = 0 THEN <<>>
       ELSE [i \in 1..Len(lines) |-> StepDesc(lines[i].body)]

\* "no detailed reasoning", line 768
NoReasoning == <<PlanLine("", 0, <<"no detailed reasoning">>)>>

\* str.strip() on lines: the empty ones at both ends go
StripLines(lines) ==
    LET solid == {i \in 1..Len(lines) : lines[i] # PlanLine("", 0, <<>>)}
    IN IF solid = {} THEN <<>> ELSE SubSeq(lines, Least(solid), Greatest(solid))

\* lines 771-779: the text after the first Reasoning: up to the next
\* Plan:, Step: or Execution:
Reasoning(response) ==
    LET start == FirstLine(response, {"Reasoning:"})
        next == Least({i \in (start + 1)..Len(response) :
                         response[i].marker \in {"Plan:", "Step:", "Execution:"}})
        stop == IF next = 0 THEN Len(response) ELSE next - 1
    IN IF start = 0 THEN NoReasoning
       ELSE StripLines(<<PlanLine("", 0, response[start].body)>>
                       \o Slice(response, start + 1, stop))

parse_plan_with_reasoning(response) ==
    [plan_steps |-> PlanSteps(response), reasoning |-> Reasoning(response)]

\* the fallback, lines 1049-1059: the lines between the first Plan: and
\* the first Reasoning: that start with 1. to 5., each without its ordinal
FallbackPlan(response) ==
    LET plan_start == FirstLine(response, {"Plan:"})
        plan_end == IF FirstLine(response, {"Reasoning:"}) = 0 THEN Len(response)
                    ELSE FirstLine(response, {"Reasoning:"}) - 1
        lines == SelectSeq(Slice(response, plan_start + 1, plan_end), StartsWithOrdinal)
    IN IF plan_start = 0 THEN <<>>
       ELSE [i \in 1..Len(lines) |-> lines[i].body]

ParsePlanWithReasoning ==
    Apply("_parse_plan_with_reasoning", parse_plan_with_reasoning(argument))

FallbackParsePlan ==
    Apply("fallback_plan", [plan_steps |-> FallbackPlan(argument), reasoning |-> <<>>])

InitPlan == RoutineAlone /\ argument \in PlanningResponses

NextPlan == ParsePlanWithReasoning \/ FallbackParsePlan

SpecPlan == InitPlan /\ [][NextPlan]_vars


\* the ordinal lines of a response are numbered 1., 2., ... from its line
\* `from` to its line `to`
Numbered(response, from, to) ==
    \A i \in from..to :
       response[i].marker = "" /\ response[i].ordinal = i - from + 1

\* 'Plan:', lines 'i. description - expected tool', 'Reasoning: ...'
DocumentedForm(response) ==
    /\ Len(response) >= 3
    /\ response[1] = PlanMarker
    /\ response[Len(response)].marker = "Reasoning:"
    /\ Numbered(response, 2, Len(response) - 1)
    /\ \A i \in 2..(Len(response) - 1) :
          \E j \in 2..Len(response[i].body) : response[i].body[j] = Annotation

\* the text before the ' - ' annotation
Description(body) ==
    SubSeq(body, 1, Least({j \in 1..Len(body) : body[j] = Annotation}) - 1)

Described(response) ==
    /\ returned.plan_steps =
          [i \in 1..(Len(response) - 2) |-> Description(response[i + 1].body)]
    /\ returned.reasoning = <<PlanLine("", 0, response[Len(response)].body)>>

\* C36: of a response 'Plan:', up to five lines 'i. description - tool',
\* 'Reasoning: text' the steps are the descriptions before ' - ' in order
\* and the reasoning is the text; without a Plan: marker there are no steps.
C36_ParsePlan ==
    applied = "_parse_plan_with_reasoning" =>
       /\ FirstLine(argument, {"Plan:"}) = 0 => returned.plan_steps = <<>>
       /\ DocumentedForm(argument) /\ Len(argument) <= 7 => Described(argument)

\* the same for descriptions without a hyphen of their own
C36_PlainDescriptions ==
    applied = "_parse_plan_with_reasoning" =>
       /\ FirstLine(argument, {"Plan:"}) = 0 => returned.plan_steps = <<>>
       /\ ( /\ DocumentedForm(argument) /\ Len(argument) <= 7
            /\ \A i \in 2..(Len(argument) - 1) :
                  \A j \in 1..Len(argument[i].body) : argument[i].body[j] # "-" )
          => Described(argument)

\* the lines from the first Plan: up to the next marker line
PlanSectionOf(response) ==
    LET start == FirstLine(response, {"Plan:"})
        next == Least({i \in (start + 1)..Len(response) : response[i].marker # ""})
    IN Slice(response, start, IF next = 0 THEN Len(response) ELSE next - 1)

\* C37: the steps come from the lines between the Plan: marker and the
\* next section marker only; an ordinal line after Reasoning: or another
\* marker gives no step.
C37_OnlyPlanSection ==
    applied = "_parse_plan_with_reasoning" /\ FirstLine(argument, {"Plan:"}) # 0 =>
       returned.plan_steps = PlanSteps(PlanSectionOf(argument))

\* 'Plan:' and the lines 1. to n., with or without a closing Reasoning: line
NumberedPlan(response, n) ==
    /\ n >= 1 /\ Len(response) \in {n + 1, n + 2}
    /\ response[1] = PlanMarker
    /\ Numbered(response, 2, n + 1)
    /\ Len(response) = n + 2 => response[n + 2] = ReasoningLine

\* C38: a plan section of n lines numbered 1. to n. gives n steps, for
\* every n >= 1, in the primary and in the fallback.
C38_EveryOrdinal ==
    \A n \in 1..MaxOrdinal :
       applied # "none" /\ NumberedPlan(argument, n) => Len(returned.plan_steps) = n

\* the same up to five lines
C38_UpToFive ==
    \A n \in 1..5 :
       applied # "none" /\ NumberedPlan(argument, n) => Len(returned.plan_steps) = n


\* ============================== call_tool and call_tool_async compared
OtherPath(path) == IF path = "sync" THEN "async" ELSE "sync"

\* what the other path gives for the tool and the parameter map of the
\* last call; nothing was registered since that call
OtherCall == call_tool(OtherPath(last_call.path), tools, last_call.name, last_call.parameters)

\* C39: for a registered tool, with a plain or a coroutine function, and
\* any parameter map, call_tool and call_tool_async give responses with
\* the same success flag, error and result, the result being the value
\* the function produces.
C39_PathsEquivalent ==
    CalledRegistered /\ last_register = NoRegister =>
       /\ last_call.raised = OtherCall.raised
       /\ tool_response = OtherCall.response
       /\ tool_response.success => tool_response.result = "value"

\* the same for tools whose function is not a coroutine function
C39_PlainFunctions ==
    CalledRegistered /\ last_register = NoRegister
    /\ ~get_tool(tools, last_call.name).function.coroutine =>
       /\ last_call.raised = OtherCall.raised
       /\ tool_response = OtherCall.response
       /\ tool_response.success => tool_response.result = "value"


\* ================================ Agent.process_request and the executor
\* the request holds one of the keywords of lines 1270 and 1276
HasKeyword == pr_request \in {"date", "time"}

\* nothing of a run has happened: no model call, no tool call, no event
NoRunAtAll ==
    /\ pc[1] = "idle" /\ llm_calls[1] = 0 /\ calls = <<>>
    /\ events[1] = <<>> /\ enqueued = <<>> /\ event_queue = <<>>

\* a request with a keyword is answered from the clock, without a run
Bypassed == pr_result.kind = pr_request /\ pr_result.resp = NoResponse /\ NoRunAtAll

\* the executor is entered from the call of process_request only, for a
\* request without keyword, and the primary's run starts in that step
C40_Step ==
    /\ pr_pc' = "awaiting" /\ pr_pc # "awaiting" => pr_pc = "called" /\ ~HasKeyword
    /\ pc[1] = "idle" /\ pc'[1] # "idle" => pr_pc = "called" /\ pr_pc' = "awaiting"
    /\ pr_pc = "awaiting" /\ pr_pc' # "awaiting" => pr_pc' = "returned"
    /\ pr_pc = "returned" => pr_pc' = "returned"

C40_State ==
    pr_pc = "returned" /\ pr_request # "not_text" =>
       IF HasKeyword THEN Bypassed
       ELSE /\ pr_result.resp # NoResponse
            /\ pr_executor = "primary" => pc[1] = "done"
            /\ CASE pr_result.resp.shape = "raise" -> pr_result.kind = "apology"
                 [] pr_result.resp.shape # "raise" /\ pr_result.resp.ans = "text" ->
                      pr_result.kind = "answer" /\ pr_result.cls = "text"
                 [] pr_result.resp.shape # "raise" /\ pr_result.resp.ans = "object" ->
                      pr_result.kind = "apology"
                 [] OTHER -> pr_result.kind = "cannot_answer"

====
